---- MODULE Spec2Model ----
(***************************************************************************)
(* Model of the GreenCode analyzers (repository MoAI-PL/BHL25).            *)
(*                                                                         *)
(* A snippet is a sequence of lines, as produced by code.split('\n'): the  *)
(* empty string is the one-line snippet whose only line is blank.  A line  *)
(* is a record                                                             *)
(*     [indent |-> leading whitespace count, kind |-> shape of the         *)
(*      stripped text, n |-> integer literal of the line (NoLiteral when   *)
(*      it has none), name |-> function name the line defines or calls]    *)
(* and every pattern of the source (re.match, re.search, `in`,             *)
(* startswith) is an operator over the kind, tabulated from the pattern    *)
(* applied to the kind's text:                                             *)
(*     blank            ""  (or whitespace only)                           *)
(*     comment          "# note"                                           *)
(*     for_range        "for i in range(N):"   (n = N)                     *)
(*                      "for i in range(m):"   (n = NoLiteral)             *)
(*     for_iter         "for x in items:"                                  *)
(*     while            "while k > 0:"                                     *)
(*     while_true       "while True:"                                      *)
(*     def              "def NAME(k):"                                     *)
(*     def_inline       "def NAME(k): NAME(1)"                             *)
(*     call             "NAME(k - 1)"                                      *)
(*     repeat_call      "y = NAME(x) + NAME(x)"                            *)
(*     assign           "x = i*2"                                          *)
(*     print            "print(i)"                                         *)
(*     open_assign      "fh = open(p)"                                     *)
(*     with_open        "with open(p) as fh:"                              *)
(*     import           "import math"                                      *)
(*     wildcard_import  "from math import *"                               *)
(*     concat           "s += 'a'"                                         *)
(*     global           "global g"                                         *)
(*     sleep            "time.sleep(N)"        (n = N)                     *)
(*     read             "data = fh.read()"                                 *)
(*     append_for       "[out.append(v) for v in xs]"                      *)
(*     listcomp         "ys = [v for v in xs]"                             *)
(*     range_len        "for i in range(len(xs)):"                         *)
(*     swap             "a[j], a[j+1] = a[j+1], a[j]"                      *)
(*     compare          "if a[j] > a[j+1]:"                                *)
(*     range_enum       "for i in range(len(list(enumerate(xs)))):"        *)
(*     append           "out.append(v)"                                    *)
(*     def_open         "def load(fh = open(p)):"                          *)
(*     for_range_from   "for i in range(10, N):"  (n = N)                  *)
(*     pass             "pass"                                             *)
(*     for_range_print  "for i in range(N): print(i)"   (n = N)            *)
(*     for_range_concat "for i in range(N): s += 'a'"   (n = N)            *)
(* A for_range line whose name is "j" reads "for j in range(N):".          *)
(***************************************************************************)
EXTENDS Integers, Sequences, FiniteSets, TLC

VARIABLES
    call,        \* the function under execution
    pc,          \* its position: "start", "loop", "scored", "done", ...
    code,        \* the snippet, a sequence of lines
    i,           \* 1-based index of the line the loop is at
    loop_stack,  \* builtin_eco_analysis / builtin_analysis: <<line, indent>> frames
    issues,      \* the issue list built so far / passed to get_eco_score
    score,       \* the score returned (NoScore before)
    raised,      \* TRUE iff an exception escaped the function
    first,       \* result of the previous run of a two-run comparison
    total_co2,   \* estimate_co2: grams so far, in nanograms
    breakdown,   \* estimate_co2: the breakdown map, key -> nanograms
    indent_stack,\* estimate_co2: indents of the open loops
    operations,  \* estimate_co2: the operation counters
    response,    \* analyze_static / analyze_runtime: the response returned
    invoked,     \* the collaborators the handler has called so far
    delegate,    \* the optional eco_code_analyzer: "missing", "raises", "ok", ...
    emissions,   \* execute_with_tracking: emissions_data of the run
    stmt,        \* execute_with_tracking: the statement exec is at (0 before)
    elapsed,     \* execute_with_tracking: wall-clock time since tracker.start()
    tracker,     \* the EmulatedEmissionsTracker: its fields and the calls made
    sys          \* sys.stdout and sys.stderr: the objects they are bound to

cmpVars == <<first>>
co2Vars == <<total_co2, breakdown, indent_stack, operations>>
webVars == <<response, invoked, delegate, emissions>>
execVars == <<stmt, elapsed, tracker, sys>>
vars == <<call, pc, code, i, loop_stack, issues, score, raised, first,
          total_co2, breakdown, indent_stack, operations,
          response, invoked, delegate, emissions, stmt, elapsed, tracker, sys>>

NoLiteral == -1
NoScore == -1
NoRun == [score |-> NoScore, at |-> 0]

Line(ind, k, lit, nm) == [indent |-> ind, kind |-> k, n |-> lit, name |-> nm]
EmptyString == <<Line(0, "blank", NoLiteral, "")>>

Max2(a, b) == IF a >= b THEN a ELSE b
Min2(a, b) == IF a <= b THEN a ELSE b

Issue(ln, sev, ty, imp) ==
    [line |-> ln, severity |-> sev, type |-> ty, co2_impact |-> imp]

(***************************************************************************)
(* get_eco_score                                                           *)
(***************************************************************************)
\* the warning branch left out
SeverityPenaltyNoWarning(severity) ==
    IF severity = "error" THEN 15 ELSE 3

SeverityPenalty(severity) ==
    IF severity = "error" THEN 15
    ELSE IF severity = "warning" THEN 8
    ELSE 3

ImpactPenalty(impact) ==
    IF impact = "high" THEN 5
    ELSE IF impact = "medium" THEN 2
    ELSE 0

\* a deduction with diminishing returns: the impact counts only above 50
ScoreAfterDiminishing(running, issue) ==
    IF running > 50
    THEN (running - SeverityPenalty(issue.severity)) - ImpactPenalty(issue.co2_impact)
    ELSE running - SeverityPenalty(issue.severity)

\* One iteration of `for issue in issues`: the running score after the issue.
ScoreAfter(running, issue) ==
    (running - SeverityPenalty(issue.severity)) - ImpactPenalty(issue.co2_impact)

\* The loop over the first k issues, left to right, starting from 100.
RECURSIVE ScoreLoop(_, _)
ScoreLoop(iss, k) ==
    IF k = 0 THEN 100 ELSE ScoreAfter(ScoreLoop(iss, k - 1), iss[k])

get_eco_score(iss) ==
    IF iss = <<>> THEN 100 ELSE Max2(0, ScoreLoop(iss, Len(iss)))

(***************************************************************************)
(* Line patterns of builtin_eco_analysis                                   *)
(***************************************************************************)
\* not line_stripped or line_stripped.startswith('#')
IsSkipped(line) == line.kind \in {"blank", "comment"}

\* re.match(r'for\s+\w+\s+in\s+range\s*\(', line_stripped)
MatchForRange(line) ==
    line.kind \in {"for_range", "range_len", "range_enum", "for_range_from",
                   "for_range_print", "for_range_concat"}

\* re.search(r'range\s*\(\s*(\d+)\s*\)', line): a single integer literal bound
HasRangeLiteral(line) ==
    line.kind \in {"for_range", "for_range_print", "for_range_concat"} /\ line.n # NoLiteral

\* re.match(r'while\s+', line_stripped)
MatchWhile(line) == line.kind \in {"while", "while_true"}

\* 'True' in line_stripped or 'true' in line_stripped
HasTrueLiteral(line) == line.kind = "while_true"

\* re.search(r'[=]\s*open\s*\(', line) and 'with ' not in line
MatchOpenAssign(line) == line.kind \in {"open_assign", "def_open"}

\* re.match(r'from\s+\w+.*import\s+\*', line_stripped)
MatchWildcardImport(line) == line.kind = "wildcard_import"

\* '+=' in line and ('str' in line or '"' in line or "'" in line)
MatchStringConcat(line) == line.kind \in {"concat", "for_range_concat"}

\* line_stripped.startswith('global ')
MatchGlobal(line) == line.kind = "global"

\* re.search(r'(\w+\([^)]*\)).*\1', line)
MatchRepeatedCall(line) == line.kind = "repeat_call"

\* 'sleep(' in line, re.search(r'sleep\s*\(\s*(\d+(?:\.\d+)?)\s*\)', line), value > 1
MatchLongSleep(line) == line.kind = "sleep" /\ line.n # NoLiteral /\ line.n > 1

\* 'print(' in line
HasPrint(line) == line.kind \in {"print", "for_range_print"}

\* '.append(' in line and 'for ' in line
MatchAppendFor(line) == line.kind = "append_for"

\* '.read()' in line or '.readlines()' in line
MatchFullRead(line) == line.kind = "read"

LargeLoopBound == 10000
MediumLoopBound == 1000

(***************************************************************************)
(* ast.parse and the recursion walk, over the line kinds                   *)
(***************************************************************************)
\* A line that ends in ':' and needs an indented block after it.
OpensBlock(line) ==
    line.kind \in {"for_range", "range_len", "range_enum", "for_iter", "while",
                   "while_true", "def", "with_open", "compare", "def_open",
                   "for_range_from"}

\* The tokenizer's indentation stack after one logical line; ok = FALSE
\* once an IndentationError / SyntaxError was met.
ParseLine(st, line) ==
    LET top == st.indents[Len(st.indents)]
        lower == SelectSeq(st.indents, LAMBDA x : x <= line.indent)
    IN  IF ~st.ok \/ IsSkipped(line) THEN st
        ELSE IF line.indent > top
            THEN [ok |-> st.open, open |-> OpensBlock(line),
                  indents |-> Append(st.indents, line.indent)]
        ELSE IF st.open
            THEN [st EXCEPT !.ok = FALSE]
        ELSE [ok |-> lower # <<>> /\ lower[Len(lower)] = line.indent,
              open |-> OpensBlock(line),
              indents |-> IF lower = <<>> THEN <<0>> ELSE lower]

RECURSIVE ParseUpTo(_, _)
ParseUpTo(src, k) ==
    IF k = 0 THEN [ok |-> TRUE, open |-> FALSE, indents |-> <<0>>]
    ELSE ParseLine(ParseUpTo(src, k - 1), src[k])

\* ast.parse(code) succeeds
Parses(src) ==
    LET st == ParseUpTo(src, Len(src)) IN st.ok /\ ~st.open

\* the lines p+1.. that belong to the block opened at line p
InBlockOf(src, p, q) ==
    /\ q > p
    /\ ~IsSkipped(src[q])
    /\ \A r \in (p + 1)..q : IsSkipped(src[r]) \/ src[r].indent > src[p].indent

\* a Call node whose func is the Name nm
CallsName(line, nm) ==
    line.kind \in {"call", "def_inline", "repeat_call"} /\ line.name = nm

\* isinstance(node, ast.FunctionDef) and some Call in ast.walk(node) names it
IsRecursiveDef(src, p) ==
    \/ src[p].kind = "def_inline"
    \/ /\ src[p].kind \in {"def", "def_open"}
       /\ \E q \in 1..Len(src) : InBlockOf(src, p, q) /\ CallsName(src[q], src[p].name)

\* depth of the statement at line p in the tree: its enclosing blocks
TreeDepth(src, p) ==
    Cardinality({q \in 1..Len(src) : OpensBlock(src[q]) /\ ~IsSkipped(src[q])
                                      /\ InBlockOf(src, q, p)})

RECURSIVE Upto(_)
Upto(k) == IF k = 0 THEN <<>> ELSE Append(Upto(k - 1), k)

\* ast.walk is breadth first: function definitions by depth, then by line
RECURSIVE WalkDefs(_, _)
WalkDefs(src, d) ==
    IF d < 0 THEN <<>>
    ELSE WalkDefs(src, d - 1) \o
         SelectSeq(Upto(Len(src)),
                   LAMBDA p : ~IsSkipped(src[p]) /\ IsRecursiveDef(src, p)
                              /\ TreeDepth(src, p) = d)

RecursionIssueAt(p) == Issue(p, "info", "recursion", "medium")

MapRecursion(ps) == [k \in 1..Len(ps) |-> RecursionIssueAt(ps[k])]

\* the try statement catching nothing: the SyntaxError leaves the function
Check12Uncaught(src) ==
    IF Parses(src)
    THEN [issues |-> MapRecursion(WalkDefs(src, Len(src))), escaped |-> FALSE]
    ELSE [issues |-> <<>>, escaped |-> TRUE]

\* Check 12: try: tree = ast.parse(code) ... except: pass.  escaped = TRUE
\* would mean the SyntaxError left the try statement.
Check12(src) ==
    IF Parses(src)
    THEN [issues |-> MapRecursion(WalkDefs(src, Len(src))), escaped |-> FALSE]
    ELSE [issues |-> <<>>, escaped |-> FALSE]

(***************************************************************************)
(* builtin_eco_analysis: one iteration of `for i, line in enumerate(..)`   *)
(***************************************************************************)
\* the comparison of the pop loop flipped: frames of smaller indent are popped
RECURSIVE PopFramesFlipped(_, _)
PopFramesFlipped(stack, indent) ==
    IF stack # <<>> /\ stack[Len(stack)][2] <= indent
    THEN PopFramesFlipped(SubSeq(stack, 1, Len(stack) - 1), indent)
    ELSE stack

\* while loop_stack and loop_stack[-1][1] >= indent: loop_stack.pop()
RECURSIVE PopFrames(_, _)
PopFrames(stack, indent) ==
    IF stack # <<>> /\ stack[Len(stack)][2] >= indent
    THEN PopFrames(SubSeq(stack, 1, Len(stack) - 1), indent)
    ELSE stack

\* the size classification with both thresholds inclusive
LoopSizeIssuesInclusive(line, ln) ==
    IF ~HasRangeLiteral(line) THEN <<>>
    ELSE IF line.n >= LargeLoopBound THEN <<Issue(ln, "warning", "large_loop", "high")>>
    ELSE IF line.n >= MediumLoopBound THEN <<Issue(ln, "info", "medium_loop", "medium")>>
    ELSE <<>>

\* Check 1, size of a literal range
LoopSizeIssues(line, ln) ==
    IF ~HasRangeLiteral(line) THEN <<>>
    ELSE IF line.n > LargeLoopBound THEN <<Issue(ln, "warning", "large_loop", "high")>>
    ELSE IF line.n > MediumLoopBound THEN <<Issue(ln, "info", "medium_loop", "medium")>>
    ELSE <<>>

\* the nesting report without its `if loop_stack:` guard
NestedLoopIssuesUnguarded(ln, stack) == <<Issue(ln, "error", "nested_loop", "high")>>

\* Check 1, `if loop_stack:` before the header's own frame is pushed
NestedLoopIssues(ln, stack) ==
    IF stack # <<>> THEN <<Issue(ln, "error", "nested_loop", "high")>> ELSE <<>>

\* Check 1 with the nesting report taking the place of the size report
LoopHeaderIssuesExclusive(line, ln, stack) ==
    IF MatchForRange(line)
    THEN IF stack # <<>> THEN NestedLoopIssues(ln, stack) ELSE LoopSizeIssues(line, ln)
    ELSE IF MatchWhile(line) /\ HasTrueLiteral(line)
    THEN <<Issue(ln, "warning", "infinite_loop_risk", "high")>>
    ELSE <<>>

\* Checks 1 and 2: the if / elif on the two loop header patterns
LoopHeaderIssues(line, ln, stack) ==
    IF MatchForRange(line)
    THEN LoopSizeIssues(line, ln) \o NestedLoopIssues(ln, stack)
    ELSE IF MatchWhile(line) /\ HasTrueLiteral(line)
    THEN <<Issue(ln, "warning", "infinite_loop_risk", "high")>>
    ELSE <<>>

\* Checks 1 and 2 without their loop_stack.append
PushFrameNever(line, ln, stack) == stack

\* loop_stack.append((i, indent)) of Checks 1 and 2
PushFrame(line, ln, stack) ==
    IF MatchForRange(line) \/ MatchWhile(line)
    THEN Append(stack, <<ln, line.indent>>)
    ELSE stack

IssueIf(cond, ln, sev, ty, imp) == IF cond THEN <<Issue(ln, sev, ty, imp)>> ELSE <<>>

\* Checks 3 to 11, in source order, reading the stack after the push
LineChecks(line, ln, stack) ==
    IssueIf(MatchOpenAssign(line), ln, "warning", "resource_leak", "low")
    \o IssueIf(MatchWildcardImport(line), ln, "warning", "wildcard_import", "low")
    \o IssueIf(MatchStringConcat(line) /\ stack # <<>>, ln, "warning", "string_concat_loop", "medium")
    \o IssueIf(MatchGlobal(line), ln, "info", "global_variable", "low")
    \o IssueIf(MatchRepeatedCall(line), ln, "info", "repeated_call", "low")
    \o IssueIf(MatchLongSleep(line), ln, "info", "long_sleep", "low")
    \o IssueIf(HasPrint(line) /\ stack # <<>>, ln, "info", "print_in_loop", "medium")
    \o IssueIf(MatchAppendFor(line), ln, "info", "list_append_pattern", "low")
    \o IssueIf(MatchFullRead(line), ln, "info", "full_file_read", "medium")

\* every issue appended while the loop body runs for line ln
EcoLineIssues(src, ln, stack) ==
    LET popped == PopFrames(stack, src[ln].indent)
    IN  LoopHeaderIssues(src[ln], ln, popped)
        \o LineChecks(src[ln], ln, PushFrame(src[ln], ln, popped))
        \o Check12(src).issues

EcoSkipLine ==
    /\ call = "builtin_eco_analysis" /\ pc = "loop"
    /\ i <= Len(code) /\ IsSkipped(code[i])
    /\ i' = i + 1
    /\ UNCHANGED <<execVars, call, pc, code, loop_stack, issues, score, raised, cmpVars, co2Vars, webVars>>

EcoProcessLine ==
    /\ call = "builtin_eco_analysis" /\ pc = "loop"
    /\ i <= Len(code) /\ ~IsSkipped(code[i])
    /\ loop_stack' = PushFrame(code[i], i, PopFrames(loop_stack, code[i].indent))
    /\ issues' = issues \o EcoLineIssues(code, i, loop_stack)
    /\ raised' = Check12(code).escaped
    /\ IF raised' THEN pc' = "done" /\ i' = i ELSE pc' = pc /\ i' = i + 1
    /\ UNCHANGED <<execVars, call, code, score, cmpVars, co2Vars, webVars>>

\* return issues, handed to get_eco_score by the caller
EcoReturn ==
    /\ call = "builtin_eco_analysis" /\ pc = "loop"
    /\ i > Len(code)
    /\ pc' = "score"
    /\ UNCHANGED <<execVars, call, code, i, loop_stack, issues, score, raised, cmpVars, co2Vars, webVars>>

GetEcoScore ==
    /\ call \in {"builtin_eco_analysis", "get_eco_score"} /\ pc = "score"
    /\ score' = get_eco_score(issues)
    /\ pc' = "done"
    /\ UNCHANGED <<execVars, call, code, i, loop_stack, issues, raised, cmpVars, co2Vars, webVars>>

(***************************************************************************)
(* builtin_analysis (eco_analyzer.py): one iteration of its line loop      *)
(***************************************************************************)
\* 'enumerate' in line
HasEnumerate(line) == line.kind = "range_enum"

\* re.match(r'for\s+\w+\s+in\s+range\s*\(', line_stripped), eco_analyzer.py
BaMatchForRange(line) ==
    line.kind \in {"for_range", "range_len", "range_enum", "for_range_from",
                   "for_range_print", "for_range_concat"}

\* 'open(' in line
HasOpenCall(line) == line.kind \in {"open_assign", "with_open", "def_open"}

\* 'with ' in line
HasWithWord(line) == line.kind = "with_open"

\* 'def ' in line
HasDefWord(line) == line.kind \in {"def", "def_inline", "def_open"}

\* re.search(r'=\s*open\s*\(', line)
HasAssignedOpen(line) == line.kind \in {"open_assign", "def_open"}

\* 'open(' in line and 'with ' not in line and 'def ' not in line
\* and re.search(r'=\s*open\s*\(', line)
BaMatchOpenAssign(line) ==
    /\ HasOpenCall(line) /\ ~HasWithWord(line) /\ ~HasDefWord(line)
    /\ HasAssignedOpen(line)

\* Check 1: nested_loop inside a loop, inefficient_loop at top level
BaLoopIssues(line, ln, stack) ==
    IF BaMatchForRange(line) /\ ~HasEnumerate(line)
    THEN IF stack # <<>>
         THEN <<Issue(ln, "error", "nested_loop", "high")>>
         ELSE <<Issue(ln, "warning", "inefficient_loop", "medium")>>
    ELSE <<>>

\* the two loop_stack.append((i, indent)): for-range headers, then while headers
BaPushFrame(line, ln, stack) ==
    IF BaMatchForRange(line) \/ MatchWhile(line)
    THEN Append(stack, <<ln, line.indent>>)
    ELSE stack

\* Checks 2 to 6, in source order, reading the stack after the push
BaLineChecks(line, ln, stack) ==
    IssueIf(BaMatchOpenAssign(line), ln, "warning", "resource_leak", "low")
    \o IssueIf(MatchWildcardImport(line), ln, "warning", "wildcard_import", "low")
    \o IssueIf(HasPrint(line) /\ stack # <<>>, ln, "info", "print_in_loop", "medium")
    \o IssueIf(MatchStringConcat(line) /\ stack # <<>>, ln, "warning", "string_concat_loop", "medium")
    \o IssueIf(MatchFullRead(line), ln, "info", "full_file_read", "medium")

BaLineIssues(src, ln, stack) ==
    LET popped == PopFrames(stack, src[ln].indent)
    IN  BaLoopIssues(src[ln], ln, popped)
        \o BaLineChecks(src[ln], ln, BaPushFrame(src[ln], ln, popped))

BaSkipLine ==
    /\ call = "builtin_analysis" /\ pc = "loop"
    /\ i <= Len(code) /\ IsSkipped(code[i])
    /\ i' = i + 1
    /\ UNCHANGED <<execVars, call, pc, code, loop_stack, issues, score, raised, cmpVars, co2Vars, webVars>>

BaProcessLine ==
    /\ call = "builtin_analysis" /\ pc = "loop"
    /\ i <= Len(code) /\ ~IsSkipped(code[i])
    /\ loop_stack' = BaPushFrame(code[i], i, PopFrames(loop_stack, code[i].indent))
    /\ issues' = issues \o BaLineIssues(code, i, loop_stack)
    /\ i' = i + 1
    /\ UNCHANGED <<execVars, call, pc, code, score, raised, cmpVars, co2Vars, webVars>>

BaReturn ==
    /\ call = "builtin_analysis" /\ pc = "loop"
    /\ i > Len(code)
    /\ pc' = "done"
    /\ UNCHANGED <<execVars, call, code, i, loop_stack, issues, score, raised, cmpVars, co2Vars, webVars>>

(***************************************************************************)
(* Inputs                                                                  *)
(***************************************************************************)
MaxIssues == 6
MaxLines == 3
MaxIndentLevel == 1
IndentWidth == 4

Indents == {IndentWidth * k : k \in 0..MaxIndentLevel}

NoResponse == [success |-> FALSE, score |-> NoScore, message |-> "", issues |-> <<>>]
NoEmissions == [duration_us |-> 0, power_dw |-> 0, emissions_ug |-> 0]

\* EmulatedEmissionsTracker.__init__; log is the history of the calls made
NewTracker ==
    [is_running |-> FALSE, duration_us |-> 0, power_dw |-> 0, energy_kwh |-> 0,
     emissions_ug |-> 0, emissions_kg |-> 0, log |-> <<>>]

\* the streams of the process before execute_with_tracking is called
Console == [stdout |-> "old_stdout", stderr |-> "old_stderr"]
NoOperations == [loops |-> 0, nested_loops |-> 0, file_operations |-> 0, imports |-> 0,
                 function_calls |-> 0, list_comprehensions |-> 0, numpy_operations |-> 0]

\* the values every run starts from; a function's Init overrides its inputs
Idle ==
    /\ i = 1 /\ loop_stack = <<>> /\ raised = FALSE
    /\ first = NoRun
    /\ total_co2 = 0 /\ breakdown = <<>> /\ indent_stack = <<>>
    /\ operations = NoOperations
    /\ response = NoResponse /\ invoked = {} /\ emissions = NoEmissions
    /\ stmt = 0 /\ elapsed = 0
    /\ tracker = NewTracker /\ sys = Console

Seqs(S, maxLen) == UNION {[1..k -> S] : k \in 0..maxLen}
Codes(lines, maxLen) == UNION {[1..k -> lines] : k \in 1..maxLen}
Shapes(kinds, lits, names, indents) ==
    {Line(ind, k, lit, nm) : ind \in indents, k \in kinds, lit \in lits, nm \in names}

\* issue lists handed to get_eco_score: every severity and every impact occurs
ScoredKinds ==
    {<<"error", "high">>, <<"error", "low">>, <<"warning", "medium">>,
     <<"info", "low">>, <<"info", "high">>}
ScoredIssues == {Issue(1, k[1], "efficiency", k[2]) : k \in ScoredKinds}

InitScore ==
    /\ call = "get_eco_score" /\ pc = "score"
    /\ code = EmptyString
    /\ issues \in Seqs(ScoredIssues, MaxIssues)
    /\ score = NoScore
    /\ delegate = "missing"
    /\ Idle

\* a caller hands the same issues over in another order: two of them swapped
Permute ==
    /\ call = "get_eco_score" /\ pc = "done"
    /\ \E a, b \in 1..Len(issues) :
          /\ a < b
          /\ issues' = [issues EXCEPT ![a] = issues[b], ![b] = issues[a]]
    /\ first' = IF first = NoRun THEN [NoRun EXCEPT !.score = score]
                ELSE first
    /\ pc' = "score"
    /\ score' = NoScore
    /\ UNCHANGED <<execVars, call, code, i, loop_stack, raised, co2Vars, webVars>>

NextScore == GetEcoScore \/ Permute
SpecScore == InitScore /\ [][NextScore]_vars

(***************************************************************************)
(* The built-in analyzers over snippets with loops and functions           *)
(***************************************************************************)
BlankLine == Line(0, "blank", NoLiteral, "")

EcoLines ==
    Shapes({"for_range"}, {3}, {""}, Indents)
    \cup Shapes({"while", "for_iter"}, {NoLiteral}, {""}, Indents)
    \cup Shapes({"def", "call", "def_inline"}, {NoLiteral}, {"f"}, Indents)
    \cup {BlankLine}

InitEco ==
    /\ call = "builtin_eco_analysis" /\ pc = "loop"
    /\ code \in Codes(EcoLines, MaxLines)
    /\ issues = <<>>
    /\ score = NoScore
    /\ delegate = "missing"
    /\ Idle

NextEco == EcoSkipLine \/ EcoProcessLine \/ EcoReturn \/ GetEcoScore
SpecEco == InitEco /\ [][NextEco]_vars

\* the snippet with `line` inserted so that it becomes line `at`
InsertLine(src, at, line) ==
    SubSeq(src, 1, at - 1) \o <<line>> \o SubSeq(src, at, Len(src))

\* the analysis is run again on the snippet with one loop header added
AddLine ==
    /\ call = "builtin_eco_analysis" /\ pc = "done" /\ first = NoRun
    /\ \E at \in 1..(Len(code) + 1), line \in Shapes({"for_range"}, {3}, {""}, Indents) :
          /\ code' = InsertLine(code, at, line)
          /\ first' = [score |-> score, at |-> at]
    /\ pc' = "loop" /\ i' = 1 /\ loop_stack' = <<>> /\ issues' = <<>>
    /\ score' = NoScore
    /\ UNCHANGED <<execVars, call, raised, co2Vars, webVars>>

NextMono == NextEco \/ AddLine
SpecMono == InitEco /\ [][NextMono]_vars

NestLevels == 2
MaxNestLines == 4

\* indents of up to NestLevels nested blocks
StackIndents == {IndentWidth * k : k \in 0..NestLevels}

NestLines ==
    Shapes({"for_range"}, {3}, {""}, {IndentWidth * k : k \in 0..NestLevels})
    \cup Shapes({"print"}, {NoLiteral}, {""}, {IndentWidth * k : k \in 0..NestLevels})
    \cup {BlankLine}

InitNest ==
    /\ call \in {"builtin_eco_analysis", "builtin_analysis"} /\ pc = "loop"
    /\ code \in Codes(NestLines, MaxNestLines)
    /\ issues = <<>>
    /\ score = NoScore
    /\ delegate = "missing"
    /\ Idle

NextNest ==
    \/ EcoSkipLine \/ EcoProcessLine \/ EcoReturn
    \/ BaSkipLine \/ BaProcessLine \/ BaReturn
SpecNest == InitNest /\ [][NextNest]_vars

\* the same snippets, the full analyzer's issues scored by get_eco_score
NextNestScore == NextNest \/ GetEcoScore
SpecNestScore == InitNest /\ [][NextNestScore]_vars

(***************************************************************************)
(* estimate_co2 (co2_estimator.py).  Grams are counted in nanograms, so    *)
(* that every CO2_ESTIMATES entry is an integer and round(total_co2, 9)    *)
(* keeps the value; kWh are counted in 1e-12 kWh.                          *)
(***************************************************************************)
LoopIterationNg == 1000
FileOperationNg == 10000
FunctionCallNg == 500
ImportNg == 20000
ListComprehensionNg == 300
DefaultIterations == 1000
WhileIterations == 5000

\* re.match(r'for\s+\w+\s+in\s+', line_stripped)
Co2IsForLoop(line) ==
    line.kind \in {"for_range", "range_len", "range_enum", "for_iter", "for_range_from",
                   "for_range_print", "for_range_concat"}

\* re.search(r'range\s*\(\s*(\d+)\s*(?:,\s*(\d+))?\s*\)', line)
Co2HasRange(line) ==
    \/ line.kind \in {"for_range", "for_range_print", "for_range_concat"} /\ line.n # NoLiteral
    \/ line.kind = "for_range_from"

\* the first literal of the two-literal range of a for_range_from line
RangeLow == 10

\* int(group(2)) - int(group(1)) with two literals, int(group(1)) with one
Co2Iterations(line) ==
    IF line.kind = "for_range_from" THEN line.n - RangeLow ELSE line.n

\* 'open(' in line
Co2HasOpen(line) == line.kind \in {"open_assign", "with_open", "def_open"}

\* line_stripped.startswith('import ') or line_stripped.startswith('from ')
Co2IsImport(line) == line.kind \in {"import", "wildcard_import"}

\* len(re.findall(r'\[.*for\s+\w+\s+in\s+.*\]', line))
Co2ListComps(line) == IF line.kind \in {"listcomp", "append_for"} THEN 1 ELSE 0

\* len(re.findall(r'\w+\s*\(', line)) minus the structural keywords, at least 0
Co2FuncCalls(line) ==
    CASE line.kind \in {"for_range", "def", "call", "open_assign", "with_open",
                        "sleep", "read", "append_for", "append",
                        "for_range_from", "for_range_print", "for_range_concat"} -> 1
      [] line.kind \in {"def_inline", "repeat_call", "range_len", "def_open"} -> 2
      [] line.kind = "range_enum" -> 4
      [] OTHER -> 0

RECURSIVE Pow2(_)
Pow2(k) == IF k = 0 THEN 1 ELSE 2 * Pow2(k - 1)

\* the pop loop with a strict comparison: a frame of equal indent stays
RECURSIVE PopIndentsAbove(_, _)
PopIndentsAbove(stack, indent) ==
    IF stack # <<>> /\ stack[Len(stack)] > indent
    THEN PopIndentsAbove(SubSeq(stack, 1, Len(stack) - 1), indent)
    ELSE stack

\* while indent_stack and indent_stack[-1] >= indent: indent_stack.pop()
RECURSIVE PopIndents(_, _)
PopIndents(stack, indent) ==
    IF stack # <<>> /\ stack[Len(stack)] >= indent
    THEN PopIndents(SubSeq(stack, 1, Len(stack) - 1), indent)
    ELSE stack

\* indent_stack.append(indent) of the for and of the while branch
Co2Push(line, stack) ==
    IF Co2IsForLoop(line) \/ MatchWhile(line) THEN Append(stack, line.indent) ELSE stack

\* the multiplier of a header that ignores its enclosing frames
Co2MultiplierFlat(line, stack) == 1

\* multiplier = 2 ** len([x for x in indent_stack if x < indent]), after the push
Co2Multiplier(line, stack) ==
    Pow2(Len(SelectSeq(stack, LAMBDA x : x < line.indent)))

\* the grams a for header adds, literal bound or default
Co2LoopGrams(line, stack) ==
    IF Co2HasRange(line)
    THEN Co2Iterations(line) * LoopIterationNg * Co2Multiplier(line, stack)
    ELSE DefaultIterations * LoopIterationNg

\* everything the loop body adds to total_co2 for one line
Co2LineGrams(line, stack) ==
    (IF Co2IsForLoop(line) THEN Co2LoopGrams(line, stack) ELSE 0)
    + (IF MatchWhile(line) THEN WhileIterations * LoopIterationNg ELSE 0)
    + (IF Co2HasOpen(line) THEN FileOperationNg ELSE 0)
    + (IF Co2IsImport(line) THEN ImportNg ELSE 0)
    + Co2ListComps(line) * ListComprehensionNg * 100

\* breakdown[key] = value
Put(map, key, value) ==
    [k \in (DOMAIN map) \cup {key} |-> IF k = key THEN value ELSE map[k]]

\* the breakdown entries the loop body writes for line ln
Co2Breakdown(map, line, ln, stack) ==
    LET withLoop == IF Co2IsForLoop(line)
                    THEN Put(map, <<"loop_line", ln>>, Co2LoopGrams(line, stack))
                    ELSE map
    IN  IF Co2HasOpen(line)
        THEN Put(withLoop, <<"file_op_line", ln>>, FileOperationNg)
        ELSE withLoop

Co2Count(ops, line, popped) ==
    [loops |-> ops.loops + (IF Co2IsForLoop(line) \/ MatchWhile(line) THEN 1 ELSE 0),
     nested_loops |-> ops.nested_loops
                      + (IF Co2IsForLoop(line) /\ popped # <<>> THEN 1 ELSE 0),
     file_operations |-> ops.file_operations + (IF Co2HasOpen(line) THEN 1 ELSE 0),
     imports |-> ops.imports + (IF Co2IsImport(line) THEN 1 ELSE 0),
     function_calls |-> ops.function_calls + Co2FuncCalls(line),
     list_comprehensions |-> ops.list_comprehensions + Co2ListComps(line),
     numpy_operations |-> ops.numpy_operations]

\* one iteration of `for i, line in enumerate(lines)`; no line is skipped
Co2ProcessLine ==
    /\ call = "estimate_co2" /\ pc = "loop"
    /\ i <= Len(code)
    /\ LET popped == PopIndents(indent_stack, code[i].indent)
           pushed == Co2Push(code[i], popped)
       IN  /\ indent_stack' = pushed
           /\ total_co2' = total_co2 + Co2LineGrams(code[i], pushed)
           /\ breakdown' = Co2Breakdown(breakdown, code[i], i, pushed)
           /\ operations' = Co2Count(operations, code[i], popped)
    /\ i' = i + 1
    /\ UNCHANGED <<execVars, call, pc, code, loop_stack, issues, score, raised, cmpVars, webVars>>

\* total_co2 += function_calls * ..., energy_kwh = total_co2 * 0.002, return
Co2Return ==
    /\ call = "estimate_co2" /\ pc = "loop"
    /\ i > Len(code)
    /\ total_co2' = total_co2 + operations.function_calls * FunctionCallNg
    /\ response' = [estimated_co2_grams |-> total_co2',
                    estimated_energy_kwh |-> 2 * total_co2',
                    operations |-> operations,
                    breakdown |-> breakdown]
    /\ pc' = "done"
    /\ UNCHANGED <<execVars, call, code, i, loop_stack, issues, score, raised, cmpVars,
                   breakdown, indent_stack, operations, invoked, delegate, emissions>>

Co2Lines ==
    Shapes({"for_range"}, {3}, {""}, Indents)
    \cup Shapes({"for_iter", "while", "open_assign", "import", "listcomp"},
                {NoLiteral}, {""}, Indents)
    \cup Shapes({"call"}, {NoLiteral}, {"f"}, Indents)
    \cup {BlankLine}

InitCo2 ==
    /\ call = "estimate_co2" /\ pc = "loop"
    /\ code \in Codes(Co2Lines, MaxLines)
    /\ issues = <<>>
    /\ score = NoScore
    /\ delegate = "missing"
    /\ Idle

NextCo2 == Co2ProcessLine \/ Co2Return
SpecCo2 == InitCo2 /\ [][NextCo2]_vars

\* snippets with two-argument literal ranges, ascending and descending
MaxRangeLines == 3

RangeLines ==
    Shapes({"for_range_from"}, {0, 2 * RangeLow}, {""}, Indents)
    \cup Shapes({"for_range"}, {3}, {""}, Indents)
    \cup Shapes({"assign", "open_assign"}, {NoLiteral}, {""}, Indents)
    \cup {BlankLine}

InitRange ==
    /\ call = "estimate_co2" /\ pc = "loop"
    /\ code \in Codes(RangeLines, MaxRangeLines)
    /\ issues = <<>>
    /\ score = NoScore
    /\ delegate = "missing"
    /\ Idle

SpecRange == InitRange /\ [][NextCo2]_vars

(***************************************************************************)
(* estimate_emissions_fallback (codecarbon_tracker.py), the simple         *)
(* estimator.  Grams in nanograms; energy_kwh in 1e-9 kWh, the unit of     *)
(* round(total_co2 * 0.002, 9): every total is a multiple of 500 ng, so    *)
(* the rounding keeps the value.                                           *)
(***************************************************************************)
\* len(re.findall(r'\w+\s*\(', line))
FbFuncCalls(line) ==
    CASE line.kind \in {"for_range", "for_range_from", "for_range_concat", "def",
                        "call", "open_assign", "with_open", "sleep", "read",
                        "append_for", "append", "print"} -> 1
      [] line.kind \in {"def_inline", "repeat_call", "range_len", "def_open",
                        "for_range_print"} -> 2
      [] line.kind = "range_enum" -> 4
      [] OTHER -> 0

\* the loop branch: a for-range header, with its literal or 1000 iterations
FbLoopGrams(line) ==
    IF ~MatchForRange(line) THEN 0
    ELSE IF HasRangeLiteral(line) THEN line.n * LoopIterationNg
    ELSE DefaultIterations * LoopIterationNg

\* everything one line adds to total_co2
FbLineGrams(line) ==
    FbLoopGrams(line)
    + (IF Co2HasOpen(line) THEN FileOperationNg ELSE 0)
    + (IF Co2IsImport(line) THEN ImportNg ELSE 0)
    + FbFuncCalls(line) * FunctionCallNg

\* one iteration of `for i, line in enumerate(lines)`
FbProcessLine ==
    /\ call = "estimate_emissions_fallback" /\ pc = "loop"
    /\ i <= Len(code)
    /\ total_co2' = total_co2 + FbLineGrams(code[i])
    /\ i' = i + 1
    /\ UNCHANGED <<call, pc, code, loop_stack, issues, score, raised, cmpVars,
                   breakdown, indent_stack, operations, webVars, execVars>>

\* result['emissions_grams'], result['energy_kwh'] set, return result
FbReturn ==
    /\ call = "estimate_emissions_fallback" /\ pc = "loop"
    /\ i > Len(code)
    /\ response' = [success |-> TRUE,
                    emissions_grams |-> total_co2,
                    energy_kwh |-> (2 * total_co2) \div 1000,
                    method |-> "estimation"]
    /\ pc' = "done"
    /\ UNCHANGED <<call, code, i, loop_stack, issues, score, raised, cmpVars, co2Vars,
                   invoked, delegate, emissions, execVars>>

\* the two estimators on the same snippets
MaxEstLines == 3

EstLines ==
    Shapes({"for_range"}, {3, NoLiteral}, {""}, StackIndents)
    \cup Shapes({"for_iter", "while", "assign"}, {NoLiteral}, {""}, StackIndents)
    \cup {BlankLine}

InitEst ==
    /\ call \in {"estimate_co2", "estimate_emissions_fallback"} /\ pc = "loop"
    /\ code \in Codes(EstLines, MaxEstLines)
    /\ issues = <<>>
    /\ score = NoScore
    /\ delegate = "missing"
    /\ Idle

NextEst == NextCo2 \/ FbProcessLine \/ FbReturn
SpecEst == InitEst /\ [][NextEst]_vars

(***************************************************************************)
(* mock_static_analysis (main.py): the simple scoring policy               *)
(***************************************************************************)
\* 'for ' in line
HasFor(line) ==
    line.kind \in {"for_range", "range_len", "range_enum", "for_iter",
                   "append_for", "listcomp", "for_range_from",
                   "for_range_print", "for_range_concat"}

\* 'while ' in line
HasWhile(line) == line.kind \in {"while", "while_true"}

\* 'for i in range' in line_lower
HasForIRange(line) ==
    \/ line.kind = "for_range" /\ line.name # "j"
    \/ line.kind \in {"range_len", "range_enum", "for_range_from",
                      "for_range_print", "for_range_concat"}

\* 'for j in range' in code.lower()
HasForJRange(src) == \E p \in 1..Len(src) : src[p].kind = "for_range" /\ src[p].name = "j"

\* 'a[j]' in code or 'arr[j]' in code or 'list[j]' in code
HasIndexJ(src) == \E p \in 1..Len(src) : src[p].kind \in {"swap", "compare"}

\* '.append(' in line
HasAppend(line) == line.kind \in {"append", "append_for"}

\* 'range(len(' in line
HasRangeLen(line) == line.kind \in {"range_len", "range_enum"}

MockIssue(ln, ty, sev) == [line |-> ln, type |-> ty, severity |-> sev]

\* any('for ' in prev for prev in lines[max(0, i-5):i-1])
MockForBefore(src, ln) == \E p \in Max2(1, ln - 4)..(ln - 1) : HasFor(src[p])

\* any('for ' in prev for prev in lines[max(0, i-3):i])
MockForAround(src, ln) == \E p \in Max2(1, ln - 2)..ln : HasFor(src[p])

MockNested(src, ln) == HasFor(src[ln]) /\ MockForBefore(src, ln)
MockBubble(src, ln) == HasForIRange(src[ln]) /\ HasForJRange(src) /\ HasIndexJ(src)
MockAppend(src, ln) == HasAppend(src[ln]) /\ MockForAround(src, ln)

MockIssueIf(cond, ln, ty, sev) == IF cond THEN <<MockIssue(ln, ty, sev)>> ELSE <<>>

\* the issues of one loop iteration; after the bubble sort issue comes `break`
MockLineIssues(src, ln) ==
    MockIssueIf(MockNested(src, ln), ln, "complexity", "warning")
    \o IF MockBubble(src, ln)
       THEN <<MockIssue(ln, "algorithm", "error")>>
       ELSE MockIssueIf(MockAppend(src, ln), ln, "memory", "info")
            \o MockIssueIf(HasRangeLen(src[ln]), ln, "pythonic", "info")
            \o MockIssueIf(MatchGlobal(src[ln]), ln, "design", "warning")

\* the deductions with the global-variable amount set to the append amount
MockLineDeductionFlat(src, ln) ==
    (IF MockNested(src, ln) THEN 15 ELSE 0)
    + IF MockBubble(src, ln) THEN 20
      ELSE (IF MockAppend(src, ln) THEN 5 ELSE 0)
           + (IF HasRangeLen(src[ln]) THEN 5 ELSE 0)
           + (IF MatchGlobal(src[ln]) THEN 5 ELSE 0)

\* the points one loop iteration takes off the score
MockLineDeduction(src, ln) ==
    (IF MockNested(src, ln) THEN 15 ELSE 0)
    + IF MockBubble(src, ln) THEN 20
      ELSE (IF MockAppend(src, ln) THEN 5 ELSE 0)
           + (IF HasRangeLen(src[ln]) THEN 5 ELSE 0)
           + (IF MatchGlobal(src[ln]) THEN 10 ELSE 0)

InMock == call \in {"mock_static_analysis", "analyze_static"}

\* the loop going on to the next line after the bubble sort issue
MockProcessLineNoBreak ==
    /\ InMock /\ pc = "loop"
    /\ i <= Len(code)
    /\ issues' = issues \o MockLineIssues(code, i)
    /\ score' = score - MockLineDeduction(code, i)
    /\ i' = i + 1 /\ pc' = pc
    /\ UNCHANGED <<execVars, call, code, loop_stack, raised, cmpVars, co2Vars, webVars>>

\* score = 100.0 before the loop; the running score may go below 0
MockProcessLine ==
    /\ InMock /\ pc = "loop"
    /\ i <= Len(code)
    /\ issues' = issues \o MockLineIssues(code, i)
    /\ score' = score - MockLineDeduction(code, i)
    /\ IF MockBubble(code, i) THEN i' = i /\ pc' = "clamp" ELSE i' = i + 1 /\ pc' = pc
    /\ UNCHANGED <<execVars, call, code, loop_stack, raised, cmpVars, co2Vars, webVars>>

MockLoopEnd ==
    /\ InMock /\ pc = "loop"
    /\ i > Len(code)
    /\ pc' = "clamp"
    /\ UNCHANGED <<execVars, call, code, i, loop_stack, issues, score, raised, cmpVars, co2Vars, webVars>>

\* score = max(0, min(100, score)); return
MockReturn ==
    /\ InMock /\ pc = "clamp"
    /\ score' = Max2(0, Min2(100, score))
    /\ pc' = IF call = "mock_static_analysis" THEN "done" ELSE "respond"
    /\ UNCHANGED <<execVars, call, code, i, loop_stack, issues, raised, cmpVars, co2Vars, webVars>>

(***************************************************************************)
(* detect_runtime_issues (main.py)                                         *)
(***************************************************************************)
RuntimeIssue(ln, ty, sev) == [line |-> ln, type |-> ty, severity |-> sev]

HasLoopWord(line) == HasFor(line) \/ HasWhile(line)

\* for j in range(i-1, 0, -1): the scan upwards from line ln, now at line j
RECURSIVE RtOuterLoop(_, _, _)
RtOuterLoop(src, ln, j) ==
    IF j < 1 THEN FALSE
    ELSE IF src[j].indent < src[ln].indent /\ HasLoopWord(src[j]) THEN TRUE
    ELSE IF src[j].indent <= src[ln].indent /\ src[j].kind # "blank" THEN FALSE
    ELSE RtOuterLoop(src, ln, j - 1)

\* ('> ' in line or '< ' in line) and 'if' in line
HasComparison(line) == line.kind = "compare"

\* a loop word in one of lines[j-1] for j in range(i-1, max(0, i-5), -1)
RtLoopAbove(src, ln) == \E j \in Max2(1, ln - 4)..(ln - 1) : HasLoopWord(src[j])

\* ', ' and ' = ' in line, with '[j]' and '[j + 1]' or '[j+1]'
HasSwap(line) == line.kind = "swap"

\* '+=' in line and ("'" in line or '"' in line)
HasPlusEqualsQuote(line) == line.kind \in {"concat", "for_range_concat"}

RtIssueIf(cond, ln, ty, sev) == IF cond THEN <<RuntimeIssue(ln, ty, sev)>> ELSE <<>>

RtLineIssues(src, ln) ==
    RtIssueIf(HasLoopWord(src[ln]) /\ RtOuterLoop(src, ln, ln - 1), ln, "nested_loop", "error")
    \o RtIssueIf(HasComparison(src[ln]) /\ RtLoopAbove(src, ln), ln, "loop_comparison", "warning")
    \o RtIssueIf(HasSwap(src[ln]), ln, "swap_pattern", "info")
    \o RtIssueIf(HasRangeLen(src[ln]), ln, "anti_pattern", "warning")
    \o RtIssueIf(HasPlusEqualsQuote(src[ln]), ln, "string_concat", "warning")

RECURSIVE RtIssuesUpTo(_, _)
RtIssuesUpTo(src, k) ==
    IF k = 0 THEN <<>> ELSE RtIssuesUpTo(src, k - 1) \o RtLineIssues(src, k)

detect_runtime_issues(src) == RtIssuesUpTo(src, Len(src))

(***************************************************************************)
(* EmulatedEmissionsTracker.stop (hardware_emulator.py).  Durations are    *)
(* microseconds, power is deciwatts, emissions are micrograms.             *)
(***************************************************************************)
\* the power tier of a duration
PowerOf(d) ==
    IF d < 1000 THEN 5
    ELSE IF d < 10000 THEN 10
    ELSE IF d < 100000 THEN 25
    ELSE IF d < 1000000 THEN 50
    ELSE IF d < 5000000 THEN 80
    ELSE 150

MinEmissionsUg == 15

\* energy_kwh * CARBON_INTENSITY_G_PER_KWH = power * max(d, 0.005) / 3600 * 400,
\* at least MIN_EMISSIONS_MG / 1000, rounded to the microgram
EmissionsOf(d) ==
    LET effMs == Max2(d, 5000) \div 1000
    IN  Max2((PowerOf(d) * effMs * 200 + 9) \div 18, MinEmissionsUg)

TrackerStop(d) ==
    [duration_us |-> d, power_dw |-> PowerOf(d), emissions_ug |-> EmissionsOf(d)]

\* energy_kwh = power_watts * max(d, 0.005) / 3600, in 1e-8 kWh
EnergyOf(d) == (PowerOf(d) * (Max2(d, 5000) \div 1000) * 25) \div 9

\* start(): start_time = time.perf_counter(); is_running = True
TrackerStarted(t) == [t EXCEPT !.is_running = TRUE, !.log = Append(@, "start")]

\* stop() computing the metrics without looking at is_running
TrackerStoppedUnguarded(t, d) ==
    [t EXCEPT !.is_running = FALSE, !.duration_us = d, !.power_dw = PowerOf(d),
              !.energy_kwh = EnergyOf(d), !.emissions_ug = EmissionsOf(d),
              !.emissions_kg = EmissionsOf(d), !.log = Append(@, "stop")]

\* stop() after d microseconds: nothing but the early return when not
\* running; emissions_kg = emissions_g / 1000.0 is the same mass, in 1e-9 kg
TrackerStopped(t, d) ==
    IF ~t.is_running THEN [t EXCEPT !.log = Append(@, "stop")]
    ELSE [t EXCEPT !.is_running = FALSE, !.duration_us = d, !.power_dw = PowerOf(d),
                   !.energy_kwh = EnergyOf(d), !.emissions_ug = EmissionsOf(d),
                   !.emissions_kg = EmissionsOf(d), !.log = Append(@, "stop")]

\* what stop() returns: 0.0 when not running, else emissions_kg
StopReturns(t, d) == IF ~t.is_running THEN 0 ELSE EmissionsOf(d)

(***************************************************************************)
(* validate_code (security.py)                                             *)
(***************************************************************************)
\* a Call whose func is a Name in FORBIDDEN_BUILTINS: open(p)
CallsForbiddenBuiltin(line) == line.kind \in {"open_assign", "with_open", "def_open"}

Violation(ln, ty) == [line |-> ln, type |-> ty, severity |-> "error"]

RECURSIVE VisitUpTo(_, _)
VisitUpTo(src, k) ==
    IF k = 0 THEN <<>>
    ELSE VisitUpTo(src, k - 1) \o
         IF CallsForbiddenBuiltin(src[k]) THEN <<Violation(k, "forbidden_builtin")>> ELSE <<>>

\* e.lineno: the line the parser stopped at, the last one when a block is
\* still expected at the end of the stripped snippet
SyntaxErrorLine(src) ==
    LET bad == {k \in 1..Len(src) : ~ParseUpTo(src, k).ok}
    IN  IF bad = {} THEN Len(src)
        ELSE CHOOSE k \in bad : \A m \in bad : k <= m

\* the violations list; is_safe is its emptiness
validate_code(src) ==
    IF ~Parses(src) THEN <<Violation(SyntaxErrorLine(src), "syntax_error")>>
    ELSE VisitUpTo(src, Len(src))

(***************************************************************************)
(* The endpoints of main.py                                                *)
(***************************************************************************)
\* every line is whitespace: str.strip() leaves ''
IsWhitespace(src) == \A p \in 1..Len(src) : src[p].kind = "blank"

\* code.strip(): leading and trailing whitespace lines go, and so does the
\* indentation of the first line that stays
Strip(src) ==
    IF IsWhitespace(src) THEN EmptyString
    ELSE LET kept == {p \in 1..Len(src) : src[p].kind # "blank"}
             a == CHOOSE p \in kept : \A q \in kept : p <= q
             b == CHOOSE p \in kept : \A q \in kept : q <= p
         IN  [k \in 1..(b - a + 1) |->
                 IF k = 1 THEN [src[a] EXCEPT !.indent = 0] ELSE src[a + k - 1]]

NoCodeResponse ==
    [success |-> FALSE, score |-> 0, message |-> "No code provided", issues |-> <<>>]

\* the early return placed after the analysis instead of before it
NoCodeAfterAnalysis ==
    /\ call \in {"analyze_static", "analyze_runtime"} /\ pc = "start"
    /\ IsWhitespace(code)
    /\ code' = Strip(code)
    /\ invoked' = invoked \cup {IF call = "analyze_static" THEN "run_eco_analyzer"
                                 ELSE "validate_code"}
    /\ response' = NoCodeResponse
    /\ pc' = "done"
    /\ UNCHANGED <<execVars, call, i, loop_stack, issues, score, raised, cmpVars, co2Vars,
                   delegate, emissions>>

\* request.code.strip() is empty: the early return of both endpoints
NoCode ==
    /\ call \in {"analyze_static", "analyze_runtime"} /\ pc = "start"
    /\ IsWhitespace(code)
    /\ code' = Strip(code)
    /\ response' = NoCodeResponse
    /\ pc' = "done"
    /\ UNCHANGED <<execVars, call, i, loop_stack, issues, score, raised, cmpVars, co2Vars,
                   invoked, delegate, emissions>>

\* run_eco_analyzer without the package, or with analyze_code raising:
\* mock_static_analysis(code) starts
StaticRunMock ==
    /\ call = "analyze_static" /\ pc = "start"
    /\ ~IsWhitespace(code)
    /\ delegate \in {"missing", "raises"}
    /\ code' = Strip(code)
    /\ invoked' = invoked \cup {"run_eco_analyzer", "mock_static_analysis"}
                  \cup (IF delegate = "raises" THEN {"analyze_code"} ELSE {})
    /\ issues' = <<>> /\ score' = 100 /\ i' = 1
    /\ pc' = "loop"
    /\ UNCHANGED <<execVars, call, loop_stack, raised, cmpVars, co2Vars, response, delegate,
                   emissions>>

\* the score the eco_code_analyzer package may hand back, times 100; the
\* package is not part of the repository
PackageScores == {0, 55, 100, 120}

\* run_eco_analyzer with the package: its score goes to the response as is
StaticRunPackage ==
    /\ call = "analyze_static" /\ pc = "start"
    /\ ~IsWhitespace(code)
    /\ delegate = "ok"
    /\ code' = Strip(code)
    /\ invoked' = invoked \cup {"run_eco_analyzer", "analyze_code"}
    /\ issues' = <<>>
    /\ \E sc \in PackageScores : score' = sc
    /\ pc' = "respond"
    /\ UNCHANGED <<execVars, call, i, loop_stack, raised, cmpVars, co2Vars, response, delegate,
                   emissions>>

StaticRespond ==
    /\ call = "analyze_static" /\ pc = "respond"
    /\ response' = [success |-> TRUE, score |-> score,
                    message |-> "Static analysis complete", issues |-> issues]
    /\ pc' = "done"
    /\ UNCHANGED <<execVars, call, code, i, loop_stack, issues, score, raised, cmpVars, co2Vars,
                   invoked, delegate, emissions>>

\* validate_code finds a violation: nothing is executed
RuntimeBlocked ==
    /\ call = "analyze_runtime" /\ pc = "start"
    /\ ~IsWhitespace(code)
    /\ validate_code(Strip(code)) # <<>>
    /\ code' = Strip(code)
    /\ invoked' = invoked \cup {"validate_code"}
    /\ response' = [success |-> FALSE, score |-> 0, message |-> "Security check failed",
                    issues |-> validate_code(Strip(code))]
    /\ pc' = "done"
    /\ UNCHANGED <<execVars, call, i, loop_stack, issues, score, raised, cmpVars, co2Vars,
                   delegate, emissions>>

\* wall-clock durations of exec, microseconds: one in every power tier
Durations == {500, 5000, 50000, 500000, 2000000, 10000000, 60000000}

\* the execution reached without looking at the result of validate_code
RuntimeExecuteUnchecked ==
    /\ call = "analyze_runtime" /\ pc = "start"
    /\ ~IsWhitespace(code)
    /\ code' = Strip(code)
    /\ invoked' = invoked \cup {"validate_code", "execute_with_tracking"}
    /\ \E d \in Durations : emissions' = TrackerStop(d)
    /\ pc' = "executed"
    /\ UNCHANGED <<execVars, call, i, loop_stack, issues, score, raised, cmpVars, co2Vars,
                   response, delegate>>

\* execute_with_tracking: exec under the tracker; an exception of the snippet
\* is caught there and the tracker is stopped all the same
RuntimeExecute ==
    /\ call = "analyze_runtime" /\ pc = "start"
    /\ ~IsWhitespace(code)
    /\ validate_code(Strip(code)) = <<>>
    /\ code' = Strip(code)
    /\ invoked' = invoked \cup {"validate_code", "execute_with_tracking"}
    /\ \E d \in Durations : emissions' = TrackerStop(d)
    /\ pc' = "executed"
    /\ UNCHANGED <<execVars, call, i, loop_stack, issues, score, raised, cmpVars, co2Vars,
                   response, delegate>>

BaselineUg == 50
LogPenaltyPerDecade == 150
FloorScore == 100
FastScore == 950
IssueAdjustment == 50
FullScore == 1000

RECURSIVE Pow10(_)
Pow10(k) == IF k = 0 THEN 1 ELSE 10 * Pow10(k - 1)

\* floor(log10(e / baseline)) for e above the baseline
RECURSIVE Decade(_, _)
Decade(e, k) == IF e >= BaselineUg * Pow10(k + 1) THEN Decade(e, k + 1) ELSE k

\* math.log10(ratio) * 15 in tenths of a point: a value of the decade's range
LogPenalties(e) ==
    LET k == Decade(e, 0)
    IN  IF e = BaselineUg * Pow10(k) THEN {LogPenaltyPerDecade * k}
        ELSE (LogPenaltyPerDecade * k)..(LogPenaltyPerDecade * (k + 1))

\* the score before the issue adjustment, tenths of a point
BaseScores(e) ==
    IF e <= BaselineUg THEN {FastScore}
    ELSE {Max2(FloorScore, FullScore - p) : p \in LogPenalties(e)}

\* the adjustment without the clamp that follows it
AdjustedScoreUnclamped(base, n) == base - n * IssueAdjustment

\* score -= len(runtime_issues) * 5; score = max(0, min(100, score))
AdjustedScore(base, n) == Max2(0, Min2(FullScore, base - n * IssueAdjustment))

\* the rest of analyze_runtime; the score is kept in tenths of a point
RuntimeRespond ==
    /\ call = "analyze_runtime" /\ pc = "executed"
    /\ invoked' = invoked \cup {"detect_runtime_issues"}
    /\ issues' = detect_runtime_issues(code)
    /\ \E base \in BaseScores(emissions.emissions_ug) :
           score' = AdjustedScore(base, Len(detect_runtime_issues(code)))
    /\ response' = [success |-> TRUE, score |-> score', message |-> "Execution complete",
                    issues |-> issues']
    /\ pc' = "done"
    /\ UNCHANGED <<execVars, call, code, i, loop_stack, raised, cmpVars, co2Vars, delegate,
                   emissions>>

(***************************************************************************)
(* The score-producing entry points together                               *)
(***************************************************************************)
MaxMockLines == 6

\* top-level lines the fallback analysis reacts to
MockLines ==
    Shapes({"range_len", "global", "swap", "append"}, {NoLiteral}, {""}, {0})
    \cup Shapes({"for_range"}, {3}, {"j"}, {0})

\* snippets posted to the endpoints: blank lines around the code, indented
\* code, a forbidden call, a loop inside a loop
WebLines ==
    Shapes({"range_len", "assign"}, {NoLiteral}, {""}, Indents)
    \cup Shapes({"open_assign", "concat"}, {NoLiteral}, {""}, {0})
    \cup {BlankLine}

InitMock ==
    /\ call = "mock_static_analysis" /\ pc = "loop"
    /\ code \in Codes(MockLines, MaxMockLines) \cup {EmptyString}
    /\ issues = <<>>
    /\ score = 100
    /\ delegate = "missing"
    /\ Idle

\* ECO_ANALYZER_AVAILABLE and the behaviour of analyze_code are the delegate
InitStatic ==
    /\ call = "analyze_static" /\ pc = "start"
    /\ code \in Codes(WebLines, MaxLines)
    /\ issues = <<>>
    /\ score = NoScore
    /\ delegate \in {"missing", "raises", "ok"}
    /\ Idle

InitRuntime ==
    /\ call = "analyze_runtime" /\ pc = "start"
    /\ code \in Codes(WebLines, MaxLines)
    /\ issues = <<>>
    /\ score = NoScore
    /\ delegate = "missing"
    /\ Idle

Init == InitScore \/ InitEco \/ InitMock \/ InitStatic \/ InitRuntime

Next ==
    \/ GetEcoScore
    \/ EcoSkipLine \/ EcoProcessLine \/ EcoReturn
    \/ MockProcessLine \/ MockLoopEnd \/ MockReturn
    \/ NoCode
    \/ StaticRunMock \/ StaticRunPackage \/ StaticRespond
    \/ RuntimeBlocked \/ RuntimeExecute \/ RuntimeRespond

Spec == Init /\ [][Next]_vars

(***************************************************************************)
(* The full analyzer over loop headers of every size class                 *)
(***************************************************************************)
MaxLoopLines == 3

\* literal bounds on both sides of the two thresholds of Check 1
LoopBounds ==
    {3, MediumLoopBound, MediumLoopBound + 1, LargeLoopBound, LargeLoopBound + 1}

LoopLines ==
    Shapes({"for_range"}, LoopBounds \cup {NoLiteral}, {""}, Indents)
    \cup Shapes({"for_range_from"}, {2 * LargeLoopBound}, {""}, Indents)
    \cup Shapes({"assign", "print"}, {NoLiteral}, {""}, Indents)
    \cup {BlankLine}

InitLoops ==
    /\ call = "builtin_eco_analysis" /\ pc = "loop"
    /\ code \in Codes(LoopLines, MaxLoopLines)
    /\ issues = <<>>
    /\ score = NoScore
    /\ delegate = "missing"
    /\ Idle

SpecLoops == InitLoops /\ [][NextEco]_vars

\* file-handling snippets for both analyzers
MaxOpenLines == 3

OpenLines ==
    Shapes({"open_assign", "with_open", "def_open", "assign", "comment"},
           {NoLiteral}, {""}, Indents)
    \cup Shapes({"def"}, {NoLiteral}, {"f"}, Indents)
    \cup {BlankLine}

InitOpen ==
    /\ call \in {"builtin_eco_analysis", "builtin_analysis"} /\ pc = "loop"
    /\ code \in Codes(OpenLines, MaxOpenLines)
    /\ issues = <<>>
    /\ score = NoScore
    /\ delegate = "missing"
    /\ Idle

SpecOpen == InitOpen /\ [][NextNest]_vars

(***************************************************************************)
(* The full analyzer over loops written on one line                        *)
(***************************************************************************)
MaxInlineLines == 3

InlineLines ==
    Shapes({"for_range", "for_range_print"}, {3, LargeLoopBound + 1}, {""}, Indents)
    \cup Shapes({"for_range_concat"}, {3}, {""}, Indents)
    \cup Shapes({"print", "concat", "assign"}, {NoLiteral}, {""}, Indents)
    \cup Shapes({"while_true", "open_assign"}, {NoLiteral}, {""}, {IndentWidth})
    \cup Shapes({"repeat_call"}, {NoLiteral}, {"f"}, {IndentWidth})
    \cup Shapes({"sleep"}, {5}, {""}, {IndentWidth})
    \cup {BlankLine}

InitInline ==
    /\ call = "builtin_eco_analysis" /\ pc = "loop"
    /\ code \in Codes(InlineLines, MaxInlineLines)
    /\ issues = <<>>
    /\ score = NoScore
    /\ delegate = "missing"
    /\ Idle

SpecInline == InitInline /\ [][NextEco]_vars

(***************************************************************************)
(* The three nesting trackers on the same snippets: loop_stack of          *)
(* builtin_eco_analysis and builtin_analysis, indent_stack of estimate_co2 *)
(***************************************************************************)
MaxStackLines == 3

CommentLines == Shapes({"comment"}, {NoLiteral}, {""}, Indents)

StackLines ==
    Shapes({"for_range"}, {3}, {""}, StackIndents)
    \cup Shapes({"while", "for_iter", "assign"}, {NoLiteral}, {""}, StackIndents)
    \cup CommentLines
    \cup {BlankLine}

InitStacks ==
    /\ call \in {"builtin_eco_analysis", "builtin_analysis", "estimate_co2"}
    /\ pc = "loop"
    /\ code \in Codes(StackLines, MaxStackLines)
    /\ issues = <<>>
    /\ score = NoScore
    /\ delegate = "missing"
    /\ Idle

NextStacks == NextNest \/ NextCo2
SpecStacks == InitStacks /\ [][NextStacks]_vars

(***************************************************************************)
(* execute_with_tracking (hardware_emulator.py): exec(code, ...) between   *)
(* tracker.start() and tracker.stop().  The snippet runs one statement per *)
(* step; the clock counts seconds and one statement takes one second.      *)
(***************************************************************************)
\* sys.stdout = StringIO(); sys.stderr = StringIO()
Captured == [stdout |-> "StringIO", stderr |-> "StringIO"]

\* timeout: float = 10.0
DefaultTimeout == 10
\* the clock stops counting here
MaxElapsed == 12
MaxExecLines == 3

\* the header of the innermost block that holds statement p, 0 at top level
EnclosingHeader(src, p) ==
    LET above == {q \in 1..(p - 1) : src[q].indent < src[p].indent}
    IN  IF above = {} THEN 0 ELSE CHOOSE q \in above : \A r \in above : r <= q

\* the statement exec runs after statement p: the body of a `while True:`
\* header, the next statement of the block, or the header again once the
\* body is through; Len(src) + 1 when the snippet is through
NextStatement(src, p) ==
    IF src[p].kind = "while_true" THEN p + 1
    ELSE IF p < Len(src) /\ src[p + 1].indent = src[p].indent THEN p + 1
    ELSE IF EnclosingHeader(src, p) # 0 THEN EnclosingHeader(src, p)
    ELSE p + 1

\* the statement raises when executed: `x = i*2` with no `i` bound
RaisesNameError(line) == line.kind = "assign"

\* sys.stdout / sys.stderr redirected, tracker.start(), exec compiles the
\* snippet: a SyntaxError is an Exception and goes to the except branch
ExecStart ==
    /\ call = "execute_with_tracking" /\ pc = "start"
    /\ invoked' = invoked \cup {"tracker.start"}
    /\ sys' = Captured
    /\ tracker' = TrackerStarted(NewTracker)
    /\ IF Parses(code)
       THEN pc' = "exec" /\ stmt' = 1 /\ raised' = FALSE
       ELSE pc' = "except" /\ stmt' = 0 /\ raised' = TRUE
    /\ UNCHANGED <<call, code, i, loop_stack, issues, score, cmpVars, co2Vars,
                   response, delegate, emissions, elapsed>>

\* exec runs one statement; nothing reads `timeout`
ExecStatement ==
    /\ call = "execute_with_tracking" /\ pc = "exec"
    /\ elapsed' = Min2(elapsed + 1, MaxElapsed)
    /\ IF RaisesNameError(code[stmt])
       THEN pc' = "except" /\ stmt' = stmt /\ raised' = TRUE
       ELSE /\ stmt' = NextStatement(code, stmt)
            /\ pc' = IF stmt' > Len(code) THEN "finally" ELSE "exec"
            /\ raised' = raised
    /\ UNCHANGED <<call, code, i, loop_stack, issues, score, cmpVars, co2Vars, webVars,
                   tracker, sys>>

\* the snippet ends with an error that is no Exception (SystemExit,
\* KeyboardInterrupt) and the streams are left as they are
ExecInterruptNoFinally ==
    /\ call = "execute_with_tracking" /\ pc = "exec"
    /\ pc' = "propagated"
    /\ UNCHANGED <<call, code, i, loop_stack, issues, score, raised, cmpVars, co2Vars,
                   webVars, execVars>>

\* the snippet ends with an error that is no Exception: `except Exception`
\* lets it through, the finally block restores the streams, nothing returns
ExecInterrupt ==
    /\ call = "execute_with_tracking" /\ pc = "exec"
    /\ sys' = Console
    /\ pc' = "propagated"
    /\ UNCHANGED <<call, code, i, loop_stack, issues, score, raised, cmpVars, co2Vars,
                   webVars, stmt, elapsed, tracker>>

\* tracker.stop() of the try or of the except branch, the finally block,
\* return tracker.get_emissions_data(), stdout_value, stderr_value
ExecReturn ==
    /\ call = "execute_with_tracking" /\ pc \in {"except", "finally"}
    /\ invoked' = invoked \cup {"tracker.stop"}
    /\ tracker' = TrackerStopped(tracker, elapsed * 1000000)
    /\ emissions' = TrackerStop(elapsed * 1000000)
    /\ response' = [emissions_data |-> emissions',
                    stderr |-> IF pc = "except" THEN "error_message" ELSE ""]
    /\ sys' = Console
    /\ pc' = "done"
    /\ UNCHANGED <<call, code, i, loop_stack, issues, score, raised, cmpVars, co2Vars,
                   delegate, stmt, elapsed>>

ExecLines == Shapes({"while_true", "pass", "assign"}, {NoLiteral}, {""}, Indents)

InitExec ==
    /\ call = "execute_with_tracking" /\ pc = "start"
    /\ code \in Codes(ExecLines, MaxExecLines)
    /\ issues = <<>>
    /\ score = NoScore
    /\ delegate = "missing"
    /\ Idle

NextExec == ExecStart \/ ExecStatement \/ ExecReturn

\* exec is a running interpreter: a step that can be taken is taken
SpecExec == InitExec /\ [][NextExec]_vars /\ WF_vars(NextExec)

\* the same runs, and those a SystemExit or KeyboardInterrupt ends
NextCapture == NextExec \/ ExecInterrupt

SpecCapture == InitExec /\ [][NextCapture]_vars

(***************************************************************************)
(* Properties                                                              *)
(***************************************************************************)
CountWhere(iss, Test(_)) == Cardinality({k \in DOMAIN iss : Test(iss[k])})
CountType(iss, ty) == CountWhere(iss, LAMBDA x : x.type = ty)
LinesOfType(iss, ty) == {iss[k].line : k \in {j \in DOMAIN iss : iss[j].type = ty}}

EcoReturned == call = "builtin_eco_analysis" /\ pc \in {"score", "done"}
BaReturned == call = "builtin_analysis" /\ pc = "done"

\* a loop header of any style
IsLoopHeader(line) ==
    line.kind \in {"for_range", "range_len", "range_enum", "for_iter", "while",
                   "while_true", "for_range_from", "for_range_print",
                   "for_range_concat"}

Endpoints == {"analyze_static", "analyze_runtime"}

\* C1: a score that get_eco_score, mock_static_analysis or analyze_runtime
\* hands back is at least 0 and at most 100 (the runtime score, kept in
\* tenths of a point, at most FullScore), whatever the issues, the snippet,
\* the emissions and the number of runtime issues.
C1_ScoreInRange ==
    /\ (call \in {"get_eco_score", "builtin_eco_analysis"} /\ pc = "done")
           => score \in 0..100
    /\ (call = "mock_static_analysis" /\ pc = "done") => score \in 0..100
    /\ (call = "analyze_runtime" /\ pc = "done" /\ response.success)
           => score \in 0..FullScore /\ response.score = score

\* the runtime score of a run whose issue adjustment alone exceeds the base
\* score, held at 0
C1_Witness ==
    /\ call = "analyze_runtime" /\ pc = "done" /\ response.success
    /\ score = 0
    /\ Len(issues) * IssueAdjustment > FloorScore
    /\ emissions.emissions_ug > BaselineUg

\* C2: adding a line that triggers a nested_loop issue at that line never
\* increases the score of the full analyzer.
C2_Monotone ==
    (call = "builtin_eco_analysis" /\ pc = "done" /\ first # NoRun
        /\ first.at \in LinesOfType(issues, "nested_loop"))
    => score <= first.score

RecursiveDefs(src) ==
    {p \in 1..Len(src) : ~IsSkipped(src[p]) /\ IsRecursiveDef(src, p)}

\* C3: for a snippet that parses, the recursion issues returned are exactly
\* one info/medium issue per self-calling function definition, at its line.
C3_OnePerRecursiveFunction ==
    (EcoReturned /\ Parses(code))
    => /\ CountType(issues, "recursion") = Cardinality(RecursiveDefs(code))
       /\ LinesOfType(issues, "recursion") = RecursiveDefs(code)
       /\ \A k \in DOMAIN issues : issues[k].type = "recursion"
             => issues[k].severity = "info" /\ issues[k].co2_impact = "medium"

ChainHeaders(src) == {p \in 1..Len(src) : src[p].kind = "for_range"}

\* the loop headers are for-range headers at strictly increasing indents and
\* every other line lies deeper than the headers before it
IsChain(src) ==
    /\ ChainHeaders(src) # {}
    /\ \A p \in 1..Len(src) : IsLoopHeader(src[p]) => p \in ChainHeaders(src)
    /\ \A p, q \in ChainHeaders(src) : p < q => src[p].indent < src[q].indent
    /\ \A q \in 1..Len(src) :
          (~IsSkipped(src[q]) /\ q \notin ChainHeaders(src))
          => /\ \E p \in ChainHeaders(src) : p < q
             /\ \A p \in ChainHeaders(src) : p < q => src[p].indent < src[q].indent

OutermostHeader(src) == CHOOSE p \in ChainHeaders(src) : \A q \in ChainHeaders(src) : p <= q

RECURSIVE SumValues(_)
SumValues(map) ==
    IF DOMAIN map = {} THEN 0
    ELSE LET key == CHOOSE k \in DOMAIN map : TRUE
         IN  map[key] + SumValues([k \in (DOMAIN map) \ {key} |-> map[k]])

\* C4: the grams estimate_co2 returns equal the sum of the values of the
\* breakdown map it returns.
C4_TotalIsSumOfBreakdown ==
    (call = "estimate_co2" /\ pc = "done")
    => response.estimated_co2_grams = SumValues(response.breakdown)

C6_EveryNestedHeaderReported ==
    [][(call = "builtin_eco_analysis" /\ pc = "loop" /\ i <= Len(code)
          /\ IsLoopHeader(code[i])
          /\ PopFrames(loop_stack, code[i].indent) # <<>>)
       => CountWhere(issues', LAMBDA x : x.line = i /\ x.type = "nested_loop"
                                          /\ x.severity = "error"
                                          /\ x.co2_impact = "high") = 1]_vars

CountSeverity(iss, sev) == CountWhere(iss, LAMBDA x : x.severity = sev)
CountImpact(iss, imp) == CountWhere(iss, LAMBDA x : x.co2_impact = imp)

\* C7: the score is max(0, 100 - sum of (severity penalty + impact penalty)),
\* every issue deducting its own 15/8/3 and 5/2/0 whatever the others are.
C7_ScoreFormula ==
    (call = "get_eco_score" /\ pc = "done")
    => score = Max2(0, 100 - (15 * CountSeverity(issues, "error")
                              + 8 * CountSeverity(issues, "warning")
                              + 3 * CountSeverity(issues, "info")
                              + 5 * CountImpact(issues, "high")
                              + 2 * CountImpact(issues, "medium")))

C7_Witness ==
    /\ call = "get_eco_score" /\ pc = "done"
    /\ \A sev \in {"error", "warning", "info"} : CountSeverity(issues, sev) > 0
    /\ \A imp \in {"high", "medium", "low"} : CountImpact(issues, imp) > 0
    /\ CountSeverity(issues, "error") > 1
    /\ score > 0

\* C8: the score of a permuted issue list equals the score of the list before
\* the permutation.
C8_OrderIndependent ==
    (call = "get_eco_score" /\ pc = "done" /\ first # NoRun)
    => score = first.score

C8_Witness ==
    /\ call = "get_eco_score" /\ pc = "done" /\ first # NoRun
    /\ ScoreLoop(issues, Len(issues)) < 0
    /\ issues[1] # issues[Len(issues)]
    /\ score = 0

\* the stack builtin_eco_analysis holds after the first k lines
RECURSIVE StackAfter(_, _)
StackAfter(src, k) ==
    IF k = 0 THEN <<>>
    ELSE IF IsSkipped(src[k]) THEN StackAfter(src, k - 1)
    ELSE PushFrame(src[k], k, PopFrames(StackAfter(src, k - 1), src[k].indent))

\* the issues of the line-based detectors (Checks 1 to 11) for the first k lines
RECURSIVE LineBased(_, _)
LineBased(src, k) ==
    IF k = 0 THEN <<>>
    ELSE IF IsSkipped(src[k]) THEN LineBased(src, k - 1)
    ELSE LET popped == PopFrames(StackAfter(src, k - 1), src[k].indent)
         IN  LineBased(src, k - 1)
             \o LoopHeaderIssues(src[k], k, popped)
             \o LineChecks(src[k], k, PushFrame(src[k], k, popped))

\* C9: for the empty string builtin_eco_analysis with get_eco_score, and
\* mock_static_analysis, end with no issues and score 100 and produce no
\* sentinel; the sentinel (success False, score 0, "No code provided") is
\* the response of analyze_static and analyze_runtime exactly when the
\* stripped code is empty, and then no analyzer, validator or executor was
\* invoked.
C9_EmptyInput ==
    /\ (call \in {"builtin_eco_analysis", "mock_static_analysis"} /\ pc = "done"
        /\ code = EmptyString)
           => issues = <<>> /\ score = 100
    /\ call \notin Endpoints => response = NoResponse
    /\ (call \in Endpoints /\ pc = "done")
           => (response = NoCodeResponse) = (code = EmptyString)
    /\ response = NoCodeResponse => invoked = {} /\ issues = <<>>
    /\ (call \in Endpoints /\ pc = "done" /\ response # NoCodeResponse) => invoked # {}

\* the sentinel of analyze_static, nothing invoked
C9_Witness ==
    /\ call = "analyze_static" /\ pc = "done"
    /\ code = EmptyString
    /\ response = NoCodeResponse /\ invoked = {}

\* C10: on a snippet that does not parse builtin_eco_analysis raises nothing,
\* returns no recursion issue and returns exactly the line-based issues.
C10_SyntaxInvalidRecovered ==
    (call = "builtin_eco_analysis" /\ ~Parses(code))
    => /\ ~raised
       /\ pc \in {"score", "done"}
             => /\ CountType(issues, "recursion") = 0
                /\ issues = LineBased(code, Len(code))

C10_Witness ==
    /\ EcoReturned /\ ~Parses(code)
    /\ \E p \in 1..Len(code) : ~IsSkipped(code[p]) /\ IsRecursiveDef(code, p)
    /\ issues # <<>>

\* the place of a line-based detector in the catalog
CatalogRank(ty) ==
    CASE ty = "nested_loop" -> 1
      [] ty \in {"large_loop", "medium_loop"} -> 2
      [] ty = "infinite_loop_risk" -> 3
      [] ty = "resource_leak" -> 4
      [] ty = "wildcard_import" -> 5
      [] ty = "string_concat_loop" -> 6
      [] ty = "global_variable" -> 7
      [] ty = "repeated_call" -> 8
      [] ty = "long_sleep" -> 9
      [] ty = "print_in_loop" -> 10
      [] ty = "full_file_read" -> 11
      [] OTHER -> 0

IsLargeLoopScenario(src) ==
    /\ src[1].kind = "for_range" /\ src[1].indent = 0 /\ src[1].n > LargeLoopBound
    /\ \A p \in 2..Len(src) : src[p].kind = "assign" /\ src[p].indent > 0

\* C12: for a single top-level `for _ in range(N)` header with literal
\* N > 10000 followed by body lines that match no detector, the full analyzer
\* returns exactly one issue, a large_loop at the header, no nested_loop, and
\* a score strictly between 50 and 100.
C12_LargeLoopScenario ==
    (call = "builtin_eco_analysis" /\ pc = "done" /\ IsLargeLoopScenario(code))
    => /\ Len(issues) = 1
       /\ issues[1].type = "large_loop" /\ issues[1].line = 1
       /\ CountType(issues, "nested_loop") = 0
       /\ score > 50 /\ score < 100

\* the scenario with a two-line body, scored
C12_Witness ==
    /\ call = "builtin_eco_analysis" /\ pc = "done"
    /\ IsLargeLoopScenario(code) /\ Len(code) = 3
    /\ CountType(issues, "large_loop") = 1
    /\ score = 100 - SeverityPenalty("warning") - ImpactPenalty("high")

\* for over a small literal range, a second one deeper, one print deeper still
IsNestedPrintScenario(src) ==
    /\ Len(src) = 3
    /\ src[1].kind = "for_range" /\ src[2].kind = "for_range" /\ src[3].kind = "print"
    /\ HasRangeLiteral(src[1]) /\ src[1].n <= MediumLoopBound
    /\ HasRangeLiteral(src[2]) /\ src[2].n <= MediumLoopBound
    /\ src[1].indent = 0 /\ src[1].indent < src[2].indent /\ src[2].indent < src[3].indent

\* C13: for a top-level `for` over a small literal range holding a second such
\* `for` at deeper indent whose body is one print call, the full analyzer
\* returns exactly two issues, nested_loop at the inner header and
\* print_in_loop at the print line, and the score is 100 - 20 - 5.
C13_NestedLoopWithPrint ==
    (call = "builtin_eco_analysis" /\ pc = "done" /\ IsNestedPrintScenario(code))
    => /\ issues = <<Issue(2, "error", "nested_loop", "high"),
                     Issue(3, "info", "print_in_loop", "medium")>>
       /\ score = 100 - 20 - 5

C13_Witness ==
    /\ call = "builtin_eco_analysis" /\ pc = "done"
    /\ IsNestedPrintScenario(code)
    /\ Len(issues) = 2 /\ score = 75

\* a line where a file-open call is assigned to a name, outside `with ` and `def `
IsLeakLine(line) ==
    /\ ~IsSkipped(line)
    /\ HasAssignedOpen(line) /\ ~HasWithWord(line) /\ ~HasDefWord(line)

LeaksAt(iss, p) ==
    {k \in DOMAIN iss : iss[k].type = "resource_leak" /\ iss[k].line = p}

\* C14: in builtin_eco_analysis and in builtin_analysis alike, a line yields
\* exactly one resource_leak issue (warning, low) when it assigns a file-open
\* call to a name, contains no `with ` and is not a `def ` line, and yields
\* none otherwise: an open call inside a `def` line gives no issue.
C14_ResourceLeakTrigger ==
    (EcoReturned \/ BaReturned) =>
        /\ \A p \in DOMAIN code :
              Cardinality(LeaksAt(issues, p)) = IF IsLeakLine(code[p]) THEN 1 ELSE 0
        /\ \A k \in DOMAIN issues :
              issues[k].type = "resource_leak" =>
                  issues[k].severity = "warning" /\ issues[k].co2_impact = "low"

IssuesAt(iss, p, ty, sev, imp) ==
    {k \in DOMAIN iss : iss[k] = Issue(p, sev, ty, imp)}
TypedAt(iss, p, ty) ==
    {k \in DOMAIN iss : iss[k].line = p /\ iss[k].type = ty}

\* a `for _ in range(N):` header whose bound is one integer literal
IsLiteralRangeHeader(line) ==
    ~IsSkipped(line) /\ line.kind = "for_range" /\ line.n # NoLiteral

\* C15: in builtin_eco_analysis a for-range header with a single integer
\* literal N gets a large_loop issue (warning/high) iff N > 10000, a
\* medium_loop issue (info/medium) iff 1000 < N <= 10000 and neither iff
\* N <= 1000, never both; any other line, a header whose bound is not a
\* single literal included, gets neither, and no error is raised.
C15_LoopSizeClassification ==
    /\ ~raised
    /\ EcoReturned =>
         \A p \in DOMAIN code :
            LET N == code[p].n
                large == Cardinality(TypedAt(issues, p, "large_loop"))
                medium == Cardinality(TypedAt(issues, p, "medium_loop"))
            IN  /\ large + medium <= 1
                /\ TypedAt(issues, p, "large_loop")
                       = IssuesAt(issues, p, "large_loop", "warning", "high")
                /\ TypedAt(issues, p, "medium_loop")
                       = IssuesAt(issues, p, "medium_loop", "info", "medium")
                /\ IF IsLiteralRangeHeader(code[p])
                   THEN /\ large = 1 <=> N > 10000
                        /\ medium = 1 <=> (1000 < N /\ N <= 10000)
                        /\ large + medium = 0 <=> N <= 1000
                   ELSE large + medium = 0

\* a snippet with a header at each side of both thresholds has been analysed
C15_Witness ==
    /\ EcoReturned
    /\ \E p, q, r \in DOMAIN code :
         /\ IsLiteralRangeHeader(code[p]) /\ code[p].n = 10000
         /\ IsLiteralRangeHeader(code[q]) /\ code[q].n = 10001
         /\ code[r].kind \in {"for_range_from"}
         /\ TypedAt(issues, p, "medium_loop") # {}
         /\ TypedAt(issues, q, "large_loop") # {}

\* C16: for every snippet estimate_co2 returns grams >= 0, energy >= 0 and
\* only non-negative breakdown values, two-argument literal ranges
\* range(a, b) with a > b included.
C16_NonNegative ==
    (call = "estimate_co2" /\ pc = "done") =>
        /\ response.estimated_co2_grams >= 0
        /\ response.estimated_energy_kwh >= 0
        /\ \A key \in DOMAIN response.breakdown : response.breakdown[key] >= 0

\* the simple scoring policy applied to a returned issue list
PolicyScore(iss) ==
    Max2(0, Min2(100, 100 - 15 * CountType(iss, "complexity")
                          - 20 * CountType(iss, "algorithm")
                          - 5 * CountType(iss, "memory")
                          - 5 * CountType(iss, "pythonic")
                          - 10 * CountType(iss, "design")))

\* C17: the score mock_static_analysis returns is 100 minus 15 per
\* complexity issue, 20 per algorithm issue, 5 per memory issue, 5 per
\* pythonic issue and 10 per design issue of the list it returns, clamped
\* to [0, 100].
C17_MockScorePolicy ==
    (call = "mock_static_analysis" /\ pc = "done") => score = PolicyScore(issues)

\* a returned list with a design issue, an algorithm issue and a third category
C17_Witness ==
    /\ call = "mock_static_analysis" /\ pc = "done"
    /\ CountType(issues, "design") > 0
    /\ CountType(issues, "algorithm") > 0
    /\ CountType(issues, "complexity") + CountType(issues, "memory")
          + CountType(issues, "pythonic") > 0
    /\ score = PolicyScore(issues)

\* C18: execute_with_tracking enforces its wall-clock timeout: once
\* `timeout` seconds have elapsed the execution is aborted, so every call
\* eventually returns its (emissions_data, stdout, stderr) tuple.
C18_TimeoutEnforced ==
    (call = "execute_with_tracking" /\ elapsed >= DefaultTimeout) ~> (pc = "done")

\* the loop iteration at line i is about to run in one of the three trackers
AtLine ==
    /\ call \in {"builtin_eco_analysis", "builtin_analysis", "estimate_co2"}
    /\ pc = "loop" /\ i <= Len(code)

\* C19: in every nesting tracker (loop_stack of builtin_eco_analysis and of
\* builtin_analysis, indent_stack of estimate_co2) the iteration over a blank
\* or comment-only line leaves the stack as it is: no frame is popped.
C19_SkippedLinesKeepStack ==
    [][(AtLine /\ IsSkipped(code[i]) /\ i' = i + 1)
         => (loop_stack' = loop_stack /\ indent_stack' = indent_stack)]_vars

\* the indents of the frames of the tracker under execution, bottom to top
FrameIndents ==
    IF call = "estimate_co2" THEN indent_stack
    ELSE [k \in DOMAIN loop_stack |-> loop_stack[k][2]]

\* the line reaches the tracking code: estimate_co2 tracks every line, the
\* two analyzers `continue` on blank and comment lines before the pop loop
Tracked(line) == call = "estimate_co2" \/ ~IsSkipped(line)

\* line i - 1 has just been processed by the tracker
JustProcessed ==
    /\ call \in {"builtin_eco_analysis", "builtin_analysis", "estimate_co2"}
    /\ i > 1 /\ i - 1 <= Len(code)
    /\ Tracked(code[i - 1])

Appended == {issues'[k] : k \in (DOMAIN issues') \ (DOMAIN issues)}

\* C21: print_in_loop and string_concat_loop read the depth of a line as the
\* number of frames that enclose it before its own frame is pushed, so a
\* line at depth 0, a top-level one-line loop included, triggers neither.
C21_DepthReadBeforePush ==
    [][(/\ call = "builtin_eco_analysis" /\ pc = "loop"
        /\ i <= Len(code) /\ ~IsSkipped(code[i])
        /\ PopFrames(loop_stack, code[i].indent) = <<>>)
         => \A x \in Appended : x.type \notin {"print_in_loop", "string_concat_loop"}]_vars

\* the frames that enclose line i, and whether Checks 5 and 9 find a frame
EnclosingFrames == PopFrames(loop_stack, code[i].indent)
InLoopAtCheck ==
    EnclosingFrames # <<>> \/ MatchForRange(code[i]) \/ MatchWhile(code[i])

\* the line-based detectors whose own condition holds on line i
Triggered ==
    LET line == code[i]
    IN  {t \in {"large_loop", "medium_loop", "nested_loop", "infinite_loop_risk",
                "resource_leak", "wildcard_import", "string_concat_loop",
                "global_variable", "repeated_call", "long_sleep", "print_in_loop",
                "list_append_pattern", "full_file_read"} :
           CASE t = "large_loop" ->
                    MatchForRange(line) /\ HasRangeLiteral(line) /\ line.n > 10000
             [] t = "medium_loop" ->
                    /\ MatchForRange(line) /\ HasRangeLiteral(line)
                    /\ line.n > 1000 /\ line.n <= 10000
             [] t = "nested_loop" -> MatchForRange(line) /\ EnclosingFrames # <<>>
             [] t = "infinite_loop_risk" -> MatchWhile(line) /\ HasTrueLiteral(line)
             [] t = "resource_leak" -> MatchOpenAssign(line)
             [] t = "wildcard_import" -> MatchWildcardImport(line)
             [] t = "string_concat_loop" -> MatchStringConcat(line) /\ InLoopAtCheck
             [] t = "global_variable" -> MatchGlobal(line)
             [] t = "repeated_call" -> MatchRepeatedCall(line)
             [] t = "long_sleep" -> MatchLongSleep(line)
             [] t = "print_in_loop" -> HasPrint(line) /\ InLoopAtCheck
             [] t = "list_append_pattern" -> MatchAppendFor(line)
             [] t = "full_file_read" -> MatchFullRead(line)}

AppendedLineBased == {x \in Appended : x.type # "recursion"}

AtLiteralHeader(f) ==
    /\ call = f /\ pc = "loop" /\ i <= Len(code)
    /\ code[i].kind = "for_range" /\ code[i].n # NoLiteral

\* the loop frames that enclose line i in estimate_co2
EnclosingCount == Len(PopIndents(indent_stack, code[i].indent))

\* C23: in estimate_co2 a for header with literal bound N and d enclosing
\* loop frames adds N x loop_iteration x 2^d to the total and records that
\* value under its breakdown key; in estimate_emissions_fallback the header
\* adds N x loop_iteration whatever d is (next to the grams of its one call).
C23_NestedScaling ==
    [][/\ AtLiteralHeader("estimate_co2") =>
            /\ total_co2' - total_co2
                 = code[i].n * LoopIterationNg * Pow2(EnclosingCount)
            /\ <<"loop_line", i>> \in DOMAIN breakdown'
            /\ breakdown'[<<"loop_line", i>>] = total_co2' - total_co2
       /\ AtLiteralHeader("estimate_emissions_fallback") =>
            total_co2' - total_co2 = code[i].n * LoopIterationNg + FunctionCallNg]_vars

\* estimate_co2 has recorded a literal header under two enclosing frames
C23_Witness ==
    /\ call = "estimate_co2" /\ pc = "done"
    /\ \E p \in DOMAIN code :
         /\ code[p].kind = "for_range" /\ code[p].n = 3
         /\ <<"loop_line", p>> \in DOMAIN response.breakdown
         /\ response.breakdown[<<"loop_line", p>>] = 3 * LoopIterationNg * 4
         /\ operations.nested_loops = 2

\* the loop iteration of an estimator is at a loop header
AtHeader(f) == call = f /\ pc = "loop" /\ i <= Len(code)

\* a for header whose bound is no integer literal; a while header
IsUnboundedFor(line) ==
    line.kind \in {"for_iter", "range_len", "range_enum"}
    \/ (line.kind = "for_range" /\ line.n = NoLiteral)
IsWhileHeader(line) == line.kind \in {"while", "while_true"}

\* C24: in estimate_co2 and in estimate_emissions_fallback a for header whose
\* bound is no integer literal adds an assumed 1000 iterations x
\* loop_iteration and a while header an assumed 5000 iterations x
\* loop_iteration to the total: no loop header adds nothing.
C24_DefaultIterations ==
    [][(AtHeader("estimate_co2") \/ AtHeader("estimate_emissions_fallback")) =>
          /\ IsUnboundedFor(code[i]) =>
                total_co2' - total_co2 >= 1000 * LoopIterationNg
          /\ IsWhileHeader(code[i]) =>
                total_co2' - total_co2 >= 5000 * LoopIterationNg]_vars

(***************************************************************************)
(* The analyzers as functions of the snippet, and the three wrappers that  *)
(* try the optional eco_code_analyzer package first: analyze_with_ecocode  *)
(* (ecocode_analyzer.py), analyze_code (eco_analyzer.py), run_eco_analyzer *)
(* (main.py).  The package is not part of the repository: its result is a  *)
(* dict whose 'issues' list holds DelegateItems.                           *)
(***************************************************************************)
\* the list builtin_eco_analysis has built after its first k lines
RECURSIVE EcoIssuesUpTo(_, _)
EcoIssuesUpTo(src, k) ==
    IF k = 0 THEN <<>>
    ELSE IF IsSkipped(src[k]) THEN EcoIssuesUpTo(src, k - 1)
    ELSE EcoIssuesUpTo(src, k - 1) \o EcoLineIssues(src, k, StackAfter(src, k - 1))

builtin_eco_analysis(src) == EcoIssuesUpTo(src, Len(src))

\* loop_stack of builtin_analysis after its first k lines
RECURSIVE BaStackAfter(_, _)
BaStackAfter(src, k) ==
    IF k = 0 THEN <<>>
    ELSE IF IsSkipped(src[k]) THEN BaStackAfter(src, k - 1)
    ELSE BaPushFrame(src[k], k, PopFrames(BaStackAfter(src, k - 1), src[k].indent))

RECURSIVE BaIssuesUpTo(_, _)
BaIssuesUpTo(src, k) ==
    IF k = 0 THEN <<>>
    ELSE IF IsSkipped(src[k]) THEN BaIssuesUpTo(src, k - 1)
    ELSE BaIssuesUpTo(src, k - 1) \o BaLineIssues(src, k, BaStackAfter(src, k - 1))

builtin_analysis(src) == BaIssuesUpTo(src, Len(src))

\* mock_static_analysis after its first k lines; stopped once `break` ran
RECURSIVE MockUpTo(_, _)
MockUpTo(src, k) ==
    IF k = 0 THEN [issues |-> <<>>, score |-> 100, stopped |-> FALSE]
    ELSE LET before == MockUpTo(src, k - 1)
         IN  IF before.stopped THEN before
             ELSE [issues |-> before.issues \o MockLineIssues(src, k),
                   score |-> before.score - MockLineDeduction(src, k),
                   stopped |-> MockBubble(src, k)]

mock_static_analysis(src) ==
    LET run == MockUpTo(src, Len(src))
    IN  [score |-> Max2(0, Min2(100, run.score)), issues |-> run.issues]

\* dict.get(key, default)
Get(item, key, default) == IF key \in DOMAIN item THEN item[key] ELSE default

\* an element of the package's list that is no dict: it has no .get
NotADict == [nodict |-> TRUE]
IsDict(item) == "nodict" \notin DOMAIN item

FullItem == [line |-> 2, severity |-> "error", type |-> "cpu", impact |-> "high",
             category |-> "loops"]
BareItem == [type |-> "memory"]

\* what the package hands back, by its behaviour: a dict with an 'issues'
\* list, or a plain list; "raises_late" has an element without .get behind
\* a good one
DelegateShape(d) == IF d = "ok_list" THEN "list" ELSE "dict"
DelegateItems(d) ==
    CASE d = "ok" -> <<FullItem, BareItem>>
      [] d = "raises_late" -> <<FullItem, NotADict>>
      [] d = "ok_list" -> <<FullItem, NotADict, BareItem>>
      [] OTHER -> <<>>

Sourced(iss, src) == iss @@ [source |-> src]

\* issues.append({... 'source': 'eco-code-analyzer'})
ConvertItem(item) ==
    Sourced(Issue(Get(item, "line", 1), Get(item, "severity", "warning"),
                  Get(item, "type", "efficiency"), Get(item, "impact", "medium")),
            "eco-code-analyzer")

\* for issue in issues: issue['source'] = 'builtin-fallback'
TagFallback(iss) == [k \in DOMAIN iss |-> Sourced(iss[k], "builtin-fallback")]

\* the except branches keeping what the conversion had appended
AweFallbackIssuesKeepPartial(partial, src) ==
    partial \o TagFallback(builtin_eco_analysis(src))

\* except ImportError / except Exception: issues = builtin_eco_analysis(code)
AweFallbackIssues(partial, src) == TagFallback(builtin_eco_analysis(src))

Wrappers == {"analyze_with_ecocode", "analyze_code", "run_eco_analyzer"}

\* the import, then the package's own analysis
AweCall ==
    /\ call = "analyze_with_ecocode" /\ pc = "start"
    /\ issues' = <<>>
    /\ invoked' = invoked \cup (IF delegate = "missing" THEN {} ELSE {"eco_analyze"})
    /\ IF delegate \in {"missing", "raises"}
       THEN pc' = "except" /\ i' = i
       ELSE pc' = "convert" /\ i' = 1
    /\ UNCHANGED <<execVars, call, code, loop_stack, score, raised, cmpVars, co2Vars,
                   response, delegate, emissions>>

\* one element of analysis_result['issues'] or of the list
AweConvert ==
    /\ call = "analyze_with_ecocode" /\ pc = "convert"
    /\ i <= Len(DelegateItems(delegate))
    /\ LET item == DelegateItems(delegate)[i]
       IN  IF IsDict(item)
           THEN issues' = Append(issues, ConvertItem(item)) /\ i' = i + 1 /\ pc' = pc
           ELSE IF DelegateShape(delegate) = "list"
           THEN issues' = issues /\ i' = i + 1 /\ pc' = pc
           ELSE issues' = issues /\ i' = i /\ pc' = "except"
    /\ UNCHANGED <<execVars, call, code, loop_stack, score, raised, cmpVars, co2Vars,
                   webVars>>

EcoScoreIssue == Sourced(Issue(0, "info", "eco_score", "info"), "eco-code-analyzer")

\* the eco score, if get_eco_score gave one, goes first; return issues
AweReturn ==
    /\ call = "analyze_with_ecocode" /\ pc = "convert"
    /\ i > Len(DelegateItems(delegate))
    /\ \E eco_score \in {NoScore} \cup PackageScores :
          /\ score' = eco_score
          /\ issues' = IF eco_score # NoScore /\ DelegateShape(delegate) = "dict"
                       THEN <<EcoScoreIssue>> \o issues
                       ELSE issues
    /\ pc' = "done"
    /\ UNCHANGED <<execVars, call, code, i, loop_stack, raised, cmpVars, co2Vars, webVars>>

AweFallback ==
    /\ call = "analyze_with_ecocode" /\ pc = "except"
    /\ issues' = AweFallbackIssues(issues, code)
    /\ invoked' = invoked \cup {"builtin_eco_analysis"}
    /\ pc' = "done"
    /\ UNCHANGED <<execVars, call, code, i, loop_stack, score, raised, cmpVars, co2Vars,
                   response, delegate, emissions>>

\* analyze_code of eco_analyzer.py: the list is local to the try statement
AcCall ==
    /\ call = "analyze_code" /\ pc = "start"
    /\ issues' = <<>>
    /\ invoked' = invoked \cup (IF delegate = "missing" THEN {} ELSE {"eco_analyze"})
    /\ IF delegate \in {"missing", "raises"}
       THEN pc' = "except" /\ i' = i
       ELSE pc' = "convert" /\ i' = 1
    /\ UNCHANGED <<execVars, call, code, loop_stack, score, raised, cmpVars, co2Vars,
                   response, delegate, emissions>>

AcConvert ==
    /\ call = "analyze_code" /\ pc = "convert"
    /\ i <= Len(DelegateItems(delegate))
    /\ LET item == DelegateItems(delegate)[i]
       IN  IF IsDict(item)
           THEN issues' = Append(issues, ConvertItem(item)) /\ i' = i + 1 /\ pc' = pc
           ELSE IF DelegateShape(delegate) = "list"
           THEN issues' = issues /\ i' = i + 1 /\ pc' = pc
           ELSE issues' = issues /\ i' = i /\ pc' = "except"
    /\ UNCHANGED <<execVars, call, code, loop_stack, score, raised, cmpVars, co2Vars,
                   webVars>>

AcReturn ==
    /\ call = "analyze_code" /\ pc = "convert"
    /\ i > Len(DelegateItems(delegate))
    /\ pc' = "done"
    /\ UNCHANGED <<execVars, call, code, i, loop_stack, issues, score, raised, cmpVars,
                   co2Vars, webVars>>

\* except ...: pass, then return builtin_analysis(code)
AcFallback ==
    /\ call = "analyze_code" /\ pc = "except"
    /\ issues' = builtin_analysis(code)
    /\ invoked' = invoked \cup {"builtin_analysis"}
    /\ pc' = "done"
    /\ UNCHANGED <<execVars, call, code, i, loop_stack, score, raised, cmpVars, co2Vars,
                   response, delegate, emissions>>

\* issues.append({...}) of run_eco_analyzer
ConvertSuggestion(item) ==
    MockIssue(Get(item, "line", 1), Get(item, "category", "efficiency"), "warning")

\* run_eco_analyzer: ECO_ANALYZER_AVAILABLE, analyze_code, get_eco_score,
\* get_improvement_suggestions
ReaCall ==
    /\ call = "run_eco_analyzer" /\ pc = "start"
    /\ issues' = <<>>
    /\ invoked' = invoked \cup (IF delegate = "missing" THEN {} ELSE {"analyze_code"})
    /\ IF delegate \in {"missing", "raises"}
       THEN pc' = "except" /\ i' = i /\ score' = score
       ELSE /\ pc' = "convert" /\ i' = 1
            /\ \E sc \in PackageScores : score' = sc
    /\ UNCHANGED <<execVars, call, code, loop_stack, raised, cmpVars, co2Vars, response,
                   delegate, emissions>>

ReaConvert ==
    /\ call = "run_eco_analyzer" /\ pc = "convert"
    /\ i <= Len(DelegateItems(delegate))
    /\ LET item == DelegateItems(delegate)[i]
       IN  IF IsDict(item)
           THEN issues' = Append(issues, ConvertSuggestion(item)) /\ i' = i + 1 /\ pc' = pc
           ELSE issues' = issues /\ i' = i /\ pc' = "except"
    /\ UNCHANGED <<execVars, call, code, loop_stack, score, raised, cmpVars, co2Vars,
                   webVars>>

ReaReturn ==
    /\ call = "run_eco_analyzer" /\ pc = "convert"
    /\ i > Len(DelegateItems(delegate))
    /\ pc' = "done"
    /\ UNCHANGED <<execVars, call, code, i, loop_stack, issues, score, raised, cmpVars,
                   co2Vars, webVars>>

\* return mock_static_analysis(code), from the except branch or the else branch
ReaFallback ==
    /\ call = "run_eco_analyzer" /\ pc = "except"
    /\ issues' = mock_static_analysis(code).issues
    /\ score' = mock_static_analysis(code).score
    /\ invoked' = invoked \cup {"mock_static_analysis"}
    /\ pc' = "done"
    /\ UNCHANGED <<execVars, call, code, i, loop_stack, raised, cmpVars, co2Vars,
                   response, delegate, emissions>>

MaxDelegateLines == 3

\* lines the three fallback analyzers react to
DelegateLines ==
    Shapes({"for_range"}, {3}, {""}, Indents)
    \cup Shapes({"print", "open_assign"}, {NoLiteral}, {""}, Indents)
    \cup Shapes({"range_len", "def"}, {NoLiteral}, {"f"}, {0})
    \cup Shapes({"call"}, {NoLiteral}, {"f"}, {IndentWidth})
    \cup {BlankLine}

InitDelegate ==
    /\ call \in Wrappers /\ pc = "start"
    /\ code \in Codes(DelegateLines, MaxDelegateLines)
    /\ issues = <<>>
    /\ score = NoScore
    /\ delegate \in {"missing", "raises", "raises_late", "ok"}
                    \cup (IF call = "run_eco_analyzer" THEN {} ELSE {"ok_list"})
    /\ Idle

NextDelegate ==
    \/ AweCall \/ AweConvert \/ AweReturn \/ AweFallback
    \/ AcCall \/ AcConvert \/ AcReturn \/ AcFallback
    \/ ReaCall \/ ReaConvert \/ ReaReturn \/ ReaFallback

SpecDelegate == InitDelegate /\ [][NextDelegate]_vars

\* the package was missing or stopped with an exception
DelegateFailed == delegate \in {"missing", "raises", "raises_late"}

SameIssue(a, b) ==
    /\ a.line = b.line /\ a.type = b.type /\ a.severity = b.severity
    /\ a.co2_impact = b.co2_impact

\* C25: whenever the eco_code_analyzer package is missing or raises, also
\* after some of its issues were converted, analyze_with_ecocode returns the
\* issues of builtin_eco_analysis (same lines, types, severities, impacts and
\* order) with source 'builtin-fallback', analyze_code returns
\* builtin_analysis(code), run_eco_analyzer returns mock_static_analysis(code);
\* no exception leaves the wrapper and nothing the package gave is mixed in.
C25_DelegateFallback ==
    /\ call \in Wrappers => ~raised
    /\ (call = "analyze_with_ecocode" /\ pc = "done" /\ DelegateFailed) =>
          /\ Len(issues) = Len(builtin_eco_analysis(code))
          /\ \A k \in DOMAIN issues :
                /\ SameIssue(issues[k], builtin_eco_analysis(code)[k])
                /\ issues[k].source = "builtin-fallback"
    /\ (call = "analyze_code" /\ pc = "done" /\ DelegateFailed) =>
          issues = builtin_analysis(code)
    /\ (call = "run_eco_analyzer" /\ pc = "done" /\ DelegateFailed) =>
          [score |-> score, issues |-> issues] = mock_static_analysis(code)

\* the package failed on its second element, after the first was converted,
\* and the fallback found something
C25_Witness ==
    /\ call = "analyze_with_ecocode" /\ pc = "done"
    /\ delegate = "raises_late" /\ i = 2
    /\ issues # <<>>

\* the request's code as validate_code and exec see it
Rejected(src) == IsWhitespace(src) \/ ~Parses(src) \/ validate_code(src) # <<>>

\* C26: analyze_runtime invokes execute_with_tracking only after
\* validate_code found the same (stripped) code safe; empty code, code with a
\* syntax error and code with a violation are never executed, and the
\* response then has success False, score 0 and one error-severity issue per
\* violation.
C26_ValidateBeforeExecute ==
    call = "analyze_runtime" =>
      /\ "execute_with_tracking" \in invoked =>
            /\ "validate_code" \in invoked
            /\ ~Rejected(code)
      /\ (pc = "done" /\ Rejected(code)) =>
            /\ "execute_with_tracking" \notin invoked
            /\ ~response.success /\ response.score = 0
            /\ Len(response.issues) =
                  IF IsWhitespace(code) THEN 0 ELSE Len(validate_code(code))
            /\ \A k \in DOMAIN response.issues :
                  /\ response.issues[k].severity = "error"
                  /\ response.issues[k].line = validate_code(code)[k].line
                  /\ response.issues[k].type = validate_code(code)[k].type

\* a snippet with a forbidden call, turned away with one issue
C26_Witness ==
    /\ call = "analyze_runtime" /\ pc = "done"
    /\ Parses(code) /\ Len(validate_code(code)) = 1
    /\ Len(response.issues) = 1
    /\ "execute_with_tracking" \notin invoked

(***************************************************************************)
(* builtin_eco_analysis on snippets with recursive functions among lines   *)
(* the line checks report                                                  *)
(***************************************************************************)
MaxOrderLines == 3

OrderLines ==
    Shapes({"open_assign", "assign", "print"}, {NoLiteral}, {""}, Indents)
    \cup Shapes({"for_range"}, {3}, {""}, Indents)
    \cup Shapes({"def_inline"}, {NoLiteral}, {"f"}, Indents)
    \cup {BlankLine}

InitOrder ==
    /\ call = "builtin_eco_analysis" /\ pc = "loop"
    /\ code \in Codes(OrderLines, MaxOrderLines)
    /\ issues = <<>>
    /\ score = NoScore
    /\ delegate = "missing"
    /\ Idle

SpecOrder == InitOrder /\ [][NextEco]_vars

\* the issues other than those of the recursion check keep line order
LineOrderIgnoringRecursion ==
    EcoReturned =>
        \A a, b \in DOMAIN issues :
            (a < b /\ issues[a].type # "recursion" /\ issues[b].type # "recursion")
            => issues[a].line <= issues[b].line

\* C27: leaving the recursion issues out, the issues builtin_eco_analysis
\* returns are in non-decreasing line order, and an issue whose line is
\* smaller than that of an issue emitted before it is a recursion issue.
C27_OnlyRecursionOutOfOrder ==
    /\ LineOrderIgnoringRecursion
    /\ EcoReturned =>
          \A a, b \in DOMAIN issues :
              (a < b /\ issues[b].line < issues[a].line) => issues[b].type = "recursion"

StopCalls(t) == Cardinality({k \in DOMAIN t.log : t.log[k] = "stop"})

\* C28: however execute_with_tracking ends (exec through, an Exception caught
\* and written to the captured stderr, or an error that is no Exception
\* going up), sys.stdout and sys.stderr are again the objects they were
\* before the call; on the two paths that return, tracker.stop() was called
\* exactly once and is_running is False.
C28_CaptureScope ==
    call = "execute_with_tracking" =>
      /\ pc \in {"done", "propagated"} => sys = Console
      /\ pc = "done" => StopCalls(tracker) = 1 /\ ~tracker.is_running

\* an error that is no Exception left the call after a statement had run
C28_Witness ==
    /\ call = "execute_with_tracking" /\ pc = "propagated"
    /\ stmt > 1 /\ tracker.is_running

(***************************************************************************)
(* EmulatedEmissionsTracker under any sequence of start() and stop()       *)
(***************************************************************************)
MaxCalls == 5

\* MIN_POWER_WATTS and MAX_POWER_WATTS, deciwatts
MinPowerDw == 5
MaxPowerDw == 150

TrackerStartCall ==
    /\ call = "EmulatedEmissionsTracker" /\ Len(tracker.log) < MaxCalls
    /\ tracker' = TrackerStarted(tracker)
    /\ UNCHANGED <<call, pc, code, i, loop_stack, issues, score, raised, cmpVars, co2Vars,
                   webVars, stmt, elapsed, sys>>

\* stop() after any time on the clock; response is what it returns
TrackerStopCall ==
    /\ call = "EmulatedEmissionsTracker" /\ Len(tracker.log) < MaxCalls
    /\ \E d \in Durations :
          /\ tracker' = TrackerStopped(tracker, d)
          /\ response' = [returned |-> StopReturns(tracker, d)]
    /\ UNCHANGED <<call, pc, code, i, loop_stack, issues, score, raised, cmpVars, co2Vars,
                   invoked, delegate, emissions, stmt, elapsed, sys>>

InitTracker ==
    /\ call = "EmulatedEmissionsTracker" /\ pc = "done"
    /\ code = EmptyString
    /\ issues = <<>>
    /\ score = NoScore
    /\ delegate = "missing"
    /\ Idle

NextTracker == TrackerStartCall \/ TrackerStopCall

SpecTracker == InitTracker /\ [][NextTracker]_vars

LastCall(t) == IF t.log = <<>> THEN "none" ELSE t.log[Len(t.log)]

Metrics(t) == <<t.duration_us, t.power_dw, t.energy_kwh, t.emissions_ug, t.emissions_kg>>

\* the power levels stop() assigns
PowerTiers == {PowerOf(d) : d \in Durations}

\* C29: over any sequence of start() and stop(), is_running is True exactly
\* when the last call was a start(); a stop() while not running returns 0.0
\* and leaves duration_seconds, power_watts, energy_kwh, emissions_g and
\* emissions_kg as they were; after a stop() while running, power_watts is
\* one of the tiers from MIN_POWER_WATTS to MAX_POWER_WATTS and emissions_g
\* is at least the minimum baseline.
C29_TrackerLifecycle ==
    [][ (call = "EmulatedEmissionsTracker" /\ tracker' # tracker) =>
          /\ tracker'.is_running <=> LastCall(tracker') = "start"
          /\ (LastCall(tracker') = "stop" /\ ~tracker.is_running) =>
                /\ response'.returned = 0
                /\ Metrics(tracker') = Metrics(tracker)
          /\ (LastCall(tracker') = "stop" /\ tracker.is_running) =>
                /\ tracker'.power_dw \in PowerTiers
                /\ tracker'.power_dw >= MinPowerDw /\ tracker'.power_dw <= MaxPowerDw
                /\ tracker'.emissions_ug >= MinEmissionsUg
                /\ response'.returned = tracker'.emissions_kg ]_vars

\* a second stop() in a row, after a run that left metrics behind
C29_Witness ==
    /\ call = "EmulatedEmissionsTracker"
    /\ Len(tracker.log) >= 3
    /\ tracker.log[Len(tracker.log)] = "stop" /\ tracker.log[Len(tracker.log) - 1] = "stop"
    /\ tracker.log[Len(tracker.log) - 2] = "start"
    /\ tracker.emissions_ug > MinEmissionsUg /\ response.returned = 0

AlgorithmIssues(iss) == {k \in DOMAIN iss : iss[k].type = "algorithm"}

\* C30: in mock_static_analysis the bubble sort detector ends the scan: there
\* is at most one 'algorithm' issue, it is the last element of the list, no
\* issue of any type belongs to a later line, and no 'memory', 'pythonic' or
\* 'design' issue belongs to its line.
C30_BubbleSortEndsScan ==
    InMock =>
      /\ Cardinality(AlgorithmIssues(issues)) <= 1
      /\ \A k \in AlgorithmIssues(issues) :
            /\ k = Len(issues)
            /\ \A m \in DOMAIN issues :
                  /\ issues[m].line <= issues[k].line
                  /\ issues[m].line = issues[k].line
                        => issues[m].type \notin {"memory", "pythonic", "design"}

\* the bubble sort issue on a range(len()) header, with a line after it that
\* another detector matches
C30_Witness ==
    /\ call = "mock_static_analysis" /\ pc = "done"
    /\ \E k \in AlgorithmIssues(issues) :
          /\ HasRangeLen(code[issues[k].line])
          /\ issues[k].line < Len(code)
          /\ \E p \in (issues[k].line + 1)..Len(code) :
                MatchGlobal(code[p]) \/ HasRangeLen(code[p])

====
